---- MODULE Spec2Model ----
(***************************************************************************)
(* A model of the chart configuration code of the panel front end          *)
(* (frontend/src/components/ChartRenderer.jsx).                            *)
(*                                                                         *)
(* JavaScript values are records [t, m, e, s]:                             *)
(*   t = "num"   a finite number, the decimal m / 10^e (normalised)        *)
(*   t = "nan"   the number NaN                                            *)
(*   t = "str"   a string, s the sequence of its characters                *)
(*   t = "undef" undefined (a missing property)                            *)
(*   t = "fn"    a function object (a member inherited from                *)
(*               Object.prototype)                                         *)
(*   t = "bool"  a boolean, m = 1 for true                                 *)
(* The module is ASCII: a Chinese character is written as one token in     *)
(* pinyin ("shaan" is the first character of Shaanxi), one token per       *)
(* character, so lengths, trimming and substring search are those of the   *)
(* source strings.  -0 is identified with 0.                               *)
(***************************************************************************)
EXTENDS Integers, Sequences, FiniteSets, TLC

VARIABLES
    pc,              \* position of the process of the specification at hand
    arg,             \* argument handed to a pure function
    ret,             \* what the function returned
    type,            \* ChartRenderer prop: chart kind
    data,            \* ChartRenderer prop: the record set, or null
    geminiConfig,    \* ChartRenderer prop: the hints
    metricOverride,  \* ChartRenderer state (useState, line 88)
    mapLoaded,       \* ChartRenderer state (useState, line 89)
    chinaMap,        \* echarts' map registry has 'china'
    fetchState,      \* the boundary dataset fetch of this component
    title,           \* ChartRenderer prop: the title
    legendRange,     \* the chart instance: the legend's selected range
    view,            \* what the last render returned
    first,           \* history: the first chart render with the present props
    instances,       \* the map ChartRenderers of one page, each with its state
    isProcessing,    \* App state (useState, line 149)
    abortControllerRef, \* App ref (useRef, line 151): the query it holds, or 0
    queries,         \* the calls of handleSend: where each stands
    currentDashboardId, \* App state (useState, line 164), 0 for null
    dashboardItems,  \* App state (useState, line 165): whose items it holds
    requests         \* the calls of chatApi.getDashboardItems

ioVars == <<arg, ret>>
chartVars == <<type, data, geminiConfig, metricOverride, mapLoaded, chinaMap,
               fetchState, title, legendRange, view, first>>
appVars == <<instances, isProcessing, abortControllerRef, queries,
             currentDashboardId, dashboardItems, requests>>
vars == <<pc, arg, ret, type, data, geminiConfig, metricOverride, mapLoaded,
          chinaMap, fetchState, title, legendRange, view, first, instances,
          isProcessing, abortControllerRef, queries, currentDashboardId,
          dashboardItems, requests>>

-----------------------------------------------------------------------------
(* Bounds *)

\* most map ChartRenderers on one page
MaxInstances == 3
\* most queries sent from the chat input
MaxQueries == 3
\* most dashboards in the list
MaxDashboards == 2
\* most times a dashboard is selected
MaxSwitches == 4
\* longest string enumerated exhaustively as an input of the value parsers
MaxStrLen == 3
\* most blanks put before and after a region name
MaxPad == 1
\* most records in a record set
MaxRows == 3

-----------------------------------------------------------------------------
(* JavaScript values *)

RECURSIVE Pow10(_)
Pow10(k) == IF k = 0 THEN 1 ELSE 10 * Pow10(k - 1)

RECURSIVE DecNorm(_, _)
DecNorm(m, e) ==
    IF e > 0 /\ m % 10 = 0 THEN DecNorm(m \div 10, e - 1) ELSE <<m, e>>

Dec(m, e) ==
    LET d == DecNorm(m, e)
    IN  [t |-> "num", m |-> d[1], e |-> d[2], s |-> <<>>]

Num(n) == Dec(n, 0)
NaN == [t |-> "nan", m |-> 0, e |-> 0, s |-> <<>>]
Str(s) == [t |-> "str", m |-> 0, e |-> 0, s |-> s]
Undefined == [t |-> "undef", m |-> 0, e |-> 0, s |-> <<>>]
FunctionObject == [t |-> "fn", m |-> 0, e |-> 0, s |-> <<>>]

\* typeof v
TypeOf(v) ==
    CASE v.t \in {"num", "nan"} -> "number"
      [] v.t = "str" -> "string"
      [] v.t = "fn" -> "function"
      [] OTHER -> "undefined"

\* ToBoolean(v): undefined, NaN, 0 and "" are falsy
Truthy(v) ==
    CASE v.t = "num" -> v.m # 0
      [] v.t = "str" -> v.s # <<>>
      [] v.t = "fn" -> TRUE
      [] OTHER -> FALSE

\* a || b
Or(a, b) == IF Truthy(a) THEN a ELSE b

\* a < b for two finite numbers
NumLess(a, b) == a.m * Pow10(b.e) < b.m * Pow10(a.e)

\* Math.abs of a finite number
NumAbs(a) == [a EXCEPT !.m = IF a.m < 0 THEN -a.m ELSE a.m]

IsDigit(c) == c \in {"0", "1", "2", "3", "4", "5", "6", "7", "8", "9"}

DigitVal(c) ==
    CASE c = "0" -> 0 [] c = "1" -> 1 [] c = "2" -> 2 [] c = "3" -> 3
      [] c = "4" -> 4 [] c = "5" -> 5 [] c = "6" -> 6 [] c = "7" -> 7
      [] c = "8" -> 8 [] c = "9" -> 9

\* the number of digits of s from position i on
RECURSIVE DigitRun(_, _)
DigitRun(s, i) ==
    IF i <= Len(s) /\ IsDigit(s[i]) THEN 1 + DigitRun(s, i + 1) ELSE 0

\* the value of the n digits of s from position i on
RECURSIVE DigitsVal(_, _, _)
DigitsVal(s, i, n) ==
    IF n = 0 THEN 0
    ELSE 10 * DigitsVal(s, i, n - 1) + DigitVal(s[i + n - 1])

RECURSIVE TrimStart(_)
TrimStart(s) == IF s # <<>> /\ Head(s) = " " THEN TrimStart(Tail(s)) ELSE s

RECURSIVE TrimEnd(_)
TrimEnd(s) ==
    IF s # <<>> /\ s[Len(s)] = " " THEN TrimEnd(SubSeq(s, 1, Len(s) - 1)) ELSE s

\* String.prototype.trim
Trim(s) == TrimEnd(TrimStart(s))

\* String.prototype.endsWith('%')
EndsWithPercent(s) == s # <<>> /\ s[Len(s)] = "%"

\* The longest prefix of s that is a decimal literal: [sign] digits [. digits]
\* or [sign] . digits (exponents, Infinity and hexadecimal are not written with
\* the characters the model draws).  <<ok, value, length of the prefix>>.
\* s from position i0 on has ni digits, then a dot or not, then nf digits
DecimalParts(s, sgn, i0, ni, dot, nf) ==
    IF ni = 0 /\ nf = 0 THEN <<FALSE, NaN, 0>>
    ELSE <<TRUE,
           Dec(sgn * (DigitsVal(s, i0, ni) * Pow10(nf)
                      + DigitsVal(s, i0 + ni + 1, nf)), nf),
           (i0 - 1) + ni + (IF dot THEN 1 + nf ELSE 0)>>

DecimalFraction(s, sgn, i0, ni, dot) ==
    DecimalParts(s, sgn, i0, ni, dot,
                 IF dot THEN DigitRun(s, i0 + ni + 1) ELSE 0)

DecimalInteger(s, sgn, i0, ni) ==
    DecimalFraction(s, sgn, i0, ni, i0 + ni <= Len(s) /\ s[i0 + ni] = ".")

DecimalSigned(s, sgn, i0) == DecimalInteger(s, sgn, i0, DigitRun(s, i0))

DecimalPrefix(s) ==
    DecimalSigned(s, IF s # <<>> /\ s[1] = "-" THEN -1 ELSE 1,
                  IF s # <<>> /\ s[1] \in {"-", "+"} THEN 2 ELSE 1)

\* parseFloat(string): leading blanks skipped, then the longest decimal prefix
ParseFloat(s) == DecimalPrefix(TrimStart(s))[2]

\* Number(string): the whole trimmed string must be a decimal literal; "" is 0
WholeLiteral(p, len) == IF p[1] /\ p[3] = len THEN p[2] ELSE NaN

TrimmedToNumber(t) ==
    IF t = <<>> THEN Num(0) ELSE WholeLiteral(DecimalPrefix(t), Len(t))

StringToNumber(s) == TrimmedToNumber(Trim(s))

\* ToNumber(v)
ToNumber(v) ==
    CASE v.t \in {"num", "nan"} -> v
      [] v.t = "str" -> StringToNumber(v.s)
      [] OTHER -> NaN

\* isNaN(v)
IsNaN(v) == ToNumber(v).t = "nan"

DigitChar(d) ==
    CASE d = 0 -> "0" [] d = 1 -> "1" [] d = 2 -> "2" [] d = 3 -> "3"
      [] d = 4 -> "4" [] d = 5 -> "5" [] d = 6 -> "6" [] d = 7 -> "7"
      [] d = 8 -> "8" [] d = 9 -> "9"

RECURSIVE NatChars(_)
NatChars(n) ==
    IF n < 10 THEN <<DigitChar(n)>>
    ELSE NatChars(n \div 10) \o <<DigitChar(n % 10)>>

RECURSIVE FracChars(_, _)
FracChars(f, e) ==
    IF e = 0 THEN <<>> ELSE FracChars(f \div 10, e - 1) \o <<DigitChar(f % 10)>>

\* String(v) / JsToString(v), for numbers written without an exponent
JsToString(v) ==
    CASE v.t = "str" -> v.s
      [] v.t = "undef" -> <<"u", "n", "d", "e", "f", "i", "n", "e", "d">>
      [] v.t = "nan" -> <<"N", "a", "N">>
      [] v.t = "fn" -> <<"f", "u", "n", "c", "t", "i", "o", "n">>
      [] OTHER ->
           LET a == IF v.m < 0 THEN -v.m ELSE v.m
           IN  (IF v.m < 0 THEN <<"-">> ELSE <<>>)
               \o NatChars(a \div Pow10(v.e))
               \o (IF v.e > 0 THEN <<".">> \o FracChars(a % Pow10(v.e), v.e)
                   ELSE <<>>)

\* the property names every object inherits from Object.prototype
ObjectPrototypeKeys ==
    { <<"c", "o", "n", "s", "t", "r", "u", "c", "t", "o", "r">>,
      <<"t", "o", "S", "t", "r", "i", "n", "g">>,
      <<"v", "a", "l", "u", "e", "O", "f">>,
      <<"h", "a", "s", "O", "w", "n", "P", "r", "o", "p", "e", "r", "t", "y">>,
      <<"_", "_", "p", "r", "o", "t", "o", "_", "_">> }

\* obj[key] of an object literal whose own properties are the function own:
\* an own property, else a member inherited from Object.prototype, else undefined
GetProperty(own, key) ==
    IF key \in DOMAIN own THEN own[key]
    ELSE IF key \in ObjectPrototypeKeys THEN FunctionObject
    ELSE Undefined

\* haystack.includes(needle)
Includes(hay, needle) ==
    \E i \in 1..(Len(hay) - Len(needle) + 1) :
        SubSeq(hay, i, i + Len(needle) - 1) = needle

-----------------------------------------------------------------------------
(* Constants and helpers of ChartRenderer.jsx *)

\* const PROVINCE_ALIAS: short region name -> name of the boundary dataset
PROVINCE_ALIAS ==
       (<<"bei", "jing">> :> <<"bei", "jing", "shi">>)
    @@ (<<"tian", "jin">> :> <<"tian", "jin", "shi">>)
    @@ (<<"he", "bei">> :> <<"he", "bei", "sheng">>)
    @@ (<<"shan", "xi">> :> <<"shan", "xi", "sheng">>)
    @@ (<<"nei", "meng", "gu">> :> <<"nei", "meng", "gu", "zi", "zhi", "qu">>)
    @@ (<<"liao", "ning">> :> <<"liao", "ning", "sheng">>)
    @@ (<<"ji", "lin">> :> <<"ji", "lin", "sheng">>)
    @@ (<<"hei", "long", "jiang">> :> <<"hei", "long", "jiang", "sheng">>)
    @@ (<<"shang", "hai">> :> <<"shang", "hai", "shi">>)
    @@ (<<"jiang", "su">> :> <<"jiang", "su", "sheng">>)
    @@ (<<"zhe", "jiang">> :> <<"zhe", "jiang", "sheng">>)
    @@ (<<"an", "hui">> :> <<"an", "hui", "sheng">>)
    @@ (<<"fu", "jian">> :> <<"fu", "jian", "sheng">>)
    @@ (<<"jiang", "xi">> :> <<"jiang", "xi", "sheng">>)
    @@ (<<"shan", "dong">> :> <<"shan", "dong", "sheng">>)
    @@ (<<"he", "nan">> :> <<"he", "nan", "sheng">>)
    @@ (<<"hu", "bei">> :> <<"hu", "bei", "sheng">>)
    @@ (<<"hu", "nan">> :> <<"hu", "nan", "sheng">>)
    @@ (<<"guang", "dong">> :> <<"guang", "dong", "sheng">>)
    @@ (<<"guang", "xi">> :> <<"guang", "xi", "zhuang", "zu", "zi", "zhi", "qu">>)
    @@ (<<"hai", "nan">> :> <<"hai", "nan", "sheng">>)
    @@ (<<"chong", "qing4">> :> <<"chong", "qing4", "shi">>)
    @@ (<<"si", "chuan">> :> <<"si", "chuan", "sheng">>)
    @@ (<<"gui", "zhou">> :> <<"gui", "zhou", "sheng">>)
    @@ (<<"yun", "nan">> :> <<"yun", "nan", "sheng">>)
    @@ (<<"xi", "zang">> :> <<"xi", "zang", "zi", "zhi", "qu">>)
    @@ (<<"shaan", "xi">> :> <<"shaan", "xi", "sheng">>)
    @@ (<<"gan", "su4">> :> <<"gan", "su4", "sheng">>)
    @@ (<<"qing", "hai">> :> <<"qing", "hai", "sheng">>)
    @@ (<<"ning", "xia">> :> <<"ning", "xia", "hui2", "zu", "zi", "zhi", "qu">>)
    @@ (<<"xin", "jiang1">> :> <<"xin", "jiang1", "wei", "wu", "er", "zi", "zhi", "qu">>)
    @@ (<<"tai", "wan">> :> <<"tai", "wan", "sheng">>)
    @@ (<<"xiang", "gang">> :> <<"xiang", "gang", "te", "bie", "xing", "zheng", "qu">>)
    @@ (<<"ao", "men">> :> <<"ao", "men", "te", "bie", "xing", "zheng", "qu">>)

\* the object PROVINCE_ALIAS: its own properties, as JavaScript values
ProvinceAliasObject == [k \in DOMAIN PROVINCE_ALIAS |-> Str(PROVINCE_ALIAS[k])]

\* Object.values(PROVINCE_ALIAS)
ProvinceAliasValues == {PROVINCE_ALIAS[k] : k \in DOMAIN PROVINCE_ALIAS}

\* lines 32-38, with hit = PROVINCE_ALIAS[cleanName]
aliasOrClean(cleanName, hit) ==
    IF Truthy(hit) THEN hit
    ELSE IF cleanName \in ProvinceAliasValues THEN Str(cleanName)
    ELSE Str(cleanName)

\* lines 31-38
normalizeClean(cleanName) ==
    aliasOrClean(cleanName, GetProperty(ProvinceAliasObject, cleanName))

\* const normalizeProvinceName = (name) => ...
normalizeProvinceName(name) ==
    IF ~Truthy(name) THEN name ELSE normalizeClean(Trim(JsToString(name)))

\* String.prototype.toLowerCase, on the letters the column names use
ToLowerChar(c) ==
    CASE c = "R" -> "r" [] c = "A" -> "a" [] c = "T" -> "t" [] c = "E" -> "e"
      [] c = "I" -> "i" [] c = "O" -> "o" [] c = "P" -> "p" [] c = "C" -> "c"
      [] c = "N" -> "n" [] c = "S" -> "s" [] c = "L" -> "l" [] c = "V" -> "v"
      [] OTHER -> c

ToLowerCase(s) == [i \in 1..Len(s) |-> ToLowerChar(s[i])]

\* the tokens of isPercentageKey: lv (rate), bi (ratio), fen e (share),
\* 'percent', 'rate', 'ratio'
PercentTokens ==
    { <<"lv">>, <<"bi">>, <<"fen", "e">>,
      <<"p", "e", "r", "c", "e", "n", "t">>,
      <<"r", "a", "t", "e">>,
      <<"r", "a", "t", "i", "o">> }

\* const isPercentageKey = (key) => ...   (key: a JavaScript value)
isPercentageKey(key) ==
    IF ~Truthy(key) \/ TypeOf(key) # "string" THEN FALSE
    ELSE LET k == ToLowerCase(key.s)
         IN  \E tok \in PercentTokens : Includes(k, tok)

\* parseVal without the `|| 0` of line 588
parseVal_NoDefault(v) ==
    IF TypeOf(v) = "number" THEN v
    ELSE IF TypeOf(v) = "string"
         THEN ParseFloat(Trim(v.s))
    ELSE Num(0)

\* lines 586-588 and 666-668: t is the trimmed string, n = parseFloat(t)
parsedOrZero(t, n) == IF EndsWithPercent(t) THEN n ELSE Or(n, Num(0))

\* lines 585-588 and 665-668
parseTrimmed(t) == parsedOrZero(t, ParseFloat(t))

\* const parseVal = (v) => ...   (case 'heatmap')
parseVal(v) ==
    IF TypeOf(v) = "number" THEN v
    ELSE IF TypeOf(v) = "string" THEN parseTrimmed(Trim(v.s))
    ELSE Num(0)

\* const parseMapVal = (v) => ...   (case 'map')
parseMapVal(v) ==
    IF TypeOf(v) = "number" THEN v
    ELSE IF TypeOf(v) = "string" THEN parseTrimmed(Trim(v.s))
    ELSE Num(0)

\* Number.prototype.toFixed(1) of a finite number (the sign of a negative
\* number is kept when it rounds to 0.0)
ToFixed1(n) ==
    LET a == NumAbs(n).m
        \* |n| * 10 rounded to an integer, half up
        tenths == IF n.e = 0 THEN a * 10
                  ELSE (a \div Pow10(n.e - 1))
                       + (IF 2 * (a % Pow10(n.e - 1)) >= Pow10(n.e - 1)
                             THEN 1 ELSE 0)
    IN  (IF n.m < 0 THEN <<"-">> ELSE <<>>)
        \o NatChars(tenths \div 10) \o <<".", DigitChar(tenths % 10)>>

\* Number.prototype.toLocaleString() of an integer below 10000 in magnitude,
\* with the thousands grouped by a comma
ToLocaleString(n) ==
    LET a == NumAbs(n).m
    IN  (IF n.m < 0 THEN <<"-">> ELSE <<>>)
        \o (IF a >= 1000
               THEN NatChars(a \div 1000)
                    \o <<",", DigitChar((a \div 100) % 10),
                         DigitChar((a \div 10) % 10), DigitChar(a % 10)>>
            ELSE NatChars(a))

\* formatValue with a percentage shown as it is, never multiplied by 100
formatNumber_NoScaling(num, key) ==
    LET whole == NumAbs(num).m \div Pow10(num.e)
    IN  IF isPercentageKey(key) THEN Str(ToFixed1(num) \o <<"%">>)
        ELSE IF whole >= 100000000
             THEN Str(ToFixed1(Dec(num.m, num.e + 8)) \o <<"yi4">>)
        ELSE IF whole >= 10000
             THEN Str(ToFixed1(Dec(num.m, num.e + 4)) \o <<"wan4">>)
        ELSE IF num.e # 0 THEN Str(ToFixed1(num))
        ELSE Str(ToLocaleString(num))

\* formatValue from `const num = Number(value)` on (lines 51-74); yi4 and wan4
\* are the characters for 10^8 and 10^4.  whole is the integer part of
\* Math.abs(num), rest its fractional part times 10^e.
formatNumber(num, key) ==
    LET whole == NumAbs(num).m \div Pow10(num.e)
        rest == NumAbs(num).m % Pow10(num.e)
        atMost105 == whole = 0 \/ (whole = 1 /\ 100 * rest <= 5 * Pow10(num.e))
        times100 == IF num.e >= 2 THEN Dec(num.m, num.e - 2)
                    ELSE Dec(num.m * Pow10(2 - num.e), 0)
    IN  IF isPercentageKey(key)
           THEN IF atMost105 /\ num.m # 0
                   THEN Str(ToFixed1(times100) \o <<"%">>)
                ELSE Str(ToFixed1(num) \o <<"%">>)
        ELSE IF whole >= 100000000
             THEN Str(ToFixed1(Dec(num.m, num.e + 8)) \o <<"yi4">>)
        ELSE IF whole >= 10000
             THEN Str(ToFixed1(Dec(num.m, num.e + 4)) \o <<"wan4">>)
        ELSE IF num.e # 0 THEN Str(ToFixed1(num))
        ELSE Str(ToLocaleString(num))

\* const formatValue = (value, key = '') => ...   (ChartRenderer.jsx)
formatValue(value, key) ==
    IF value.t = "undef" \/ IsNaN(value) THEN value
    ELSE formatNumber(ToNumber(value), IF key.t = "undef" THEN Str(<<>>) ELSE key)

\* const formatValue = (value, key = '') => ...   (EnhancedTable.jsx)
tableFormatValue(value, key) ==
    IF value.t = "undef" \/ IsNaN(value) THEN value
    ELSE formatNumber(ToNumber(value), IF key.t = "undef" THEN Str(<<>>) ELSE key)

-----------------------------------------------------------------------------
(* The props of ChartRenderer *)

JsBool(b) == [t |-> "bool", m |-> IF b THEN 1 ELSE 0, e |-> 0, s |-> <<>>]

\* column names
NAME == <<"n", "a", "m", "e">>
VALUE == <<"v", "a", "l", "u", "e">>
\* xiao shou e: sales
SALES == <<"xiao", "shou", "e2">>
\* zeng zhang lv: growth rate
GROWTH == <<"zeng", "zhang", "lv">>

\* wei fen lei: 'uncategorised', the group of a record without a group value
UNCATEGORIZED == <<"wei4", "fen", "lei">>
\* shu ju: 'data', the one group of a record set without a group column
DATA_GROUP == <<"shu", "ju">>

\* one record: a function from its column names to its values
Row(cols, vals) == [c \in {cols[i] : i \in DOMAIN cols} |->
                      vals[CHOOSE i \in DOMAIN cols : cols[i] = c]]

\* the column lists of the record sets
Schemas ==
    LET REGION == <<"r", "e", "g", "i", "o", "n">>
        SEG == <<"s", "e", "g">>
        PROFIT == <<"p", "r", "o", "f", "i", "t">>
        RATE == <<"R", "a", "t", "e">>
        SIZE == <<"s", "i", "z", "e">>
    IN  [ plain  |-> <<NAME, SALES>>,
          dual   |-> <<NAME, SALES, GROWTH>>,
          pct    |-> <<NAME, GROWTH, RATE>>,
          text   |-> <<REGION, SEG>>,
          cross  |-> <<REGION, SEG, SALES, GROWTH>>,
          bubble |-> <<NAME, SALES, PROFIT, SIZE>> ]

\* the records drawn for each column list: names that are an alias key
\* (shaan xi), an alias value (bei jing shi) or padded (xi an), a group named
\* like a member of Object.prototype, numbers, numeric strings and percentages
RowPool ==
    LET SA == Str(<<"A">>)
        SB == Str(<<"B">>)
        SEmpty == Str(<<>>)
        SConstructor ==
            Str(<<"c", "o", "n", "s", "t", "r", "u", "c", "t", "o", "r">>)
        SShaanxi == Str(<<"shaan", "xi">>)
        SBeijingShi == Str(<<"bei", "jing", "shi">>)
        SXian == Str(<<" ", "xi", "an">>)
        P12 == Str(<<"1", "2", "%">>)
        PMinus3 == Str(<<"-", "3", "%">>)
        PBad == Str(<<"a", "b", "c", "%">>)
        S7 == Str(<<"7">>)
    IN  [ plain  |-> { <<SA, Num(5)>>, <<SB, Num(0)>> },
          dual   |-> { <<SA, Num(5), P12>>, <<SB, Dec(25, 1), PMinus3>>,
                       <<SB, Num(0), Num(0)>> },
          pct    |-> { <<SA, P12, Dec(5, 1)>> },
          text   |-> { <<SShaanxi, SA>>, <<SXian, SB>> },
          cross  |-> { <<SShaanxi, SA, Num(5), P12>>,
                       <<SBeijingShi, SB, Num(0), PMinus3>>,
                       <<SXian, SEmpty, Num(-2), PBad>>,
                       <<SShaanxi, SConstructor, S7, P12>>,
                       <<SBeijingShi, SA, Num(9), Str(<<"0", "%">>)>> },
          bubble |-> { <<SA, Num(5), Num(2), Num(1)>>,
                       <<SB, Num(3), Num(2), Num(4)>>,
                       <<SA, Num(1), Num(7), Num(9)>>,
                       <<SB, Num(2), Num(2), Num(0)>>,
                       <<SA, Num(4), Num(1), Num(-9)>>,
                       <<SB, Num(6), Num(3), Num(36)>> } ]

\* data = null
NullData == [isNull |-> TRUE, cols |-> <<>>, rows |-> <<>>]
\* data = []
EmptyData == [isNull |-> FALSE, cols |-> <<>>, rows |-> <<>>]

\* the record sets of 1..MaxRows records of one schema
DataSetsOf(schema) ==
    { [isNull |-> FALSE, cols |-> Schemas[schema],
       rows |-> [i \in 1..Len(pick) |-> Row(Schemas[schema], pick[i])]] :
        pick \in UNION {[1..k -> RowPool[schema]] : k \in 1..MaxRows} }

\* geminiConfig = {}
NoHints ==
    [ dimension |-> Undefined, xDataKey |-> Undefined, yDataKey |-> Undefined,
      sizeDataKey |-> Undefined, seriesKey |-> Undefined,
      metricKey |-> Undefined, colors |-> <<>>, showLegend |-> Undefined,
      showGrid |-> Undefined, unit |-> Undefined, xAxisLabel |-> Undefined,
      yAxisLabel |-> Undefined, imageUrl |-> Undefined, chartType |-> "" ]

-----------------------------------------------------------------------------
(* ChartRenderer: the derived values *)

\* const COLORS
COLORS ==
    <<"#0ea5e9", "#f97316", "#3b82f6", "#10b981", "#8b5cf6", "#f43f5e",
      "#eab308", "#06b6d4">>

InSeq(seq, x) == \E i \in DOMAIN seq : seq[i] = x

\* d[key] for a record d of the data and a key given as a JavaScript value
Get(d, key) == GetProperty(d, JsToString(key))

\* arr[i] (i from 0) of an array of strings, undefined past its end
At(arr, i) == IF i + 1 \in DOMAIN arr THEN Str(arr[i + 1]) ELSE Undefined

\* the test of the filter without `if (trimmed === '') return false`
IsMetricString_BlankIsNumber(trimmed) ==
    IF EndsWithPercent(trimmed)
       THEN ParseFloat(SubSeq(trimmed, 1, Len(trimmed) - 1)).t # "nan"
    ELSE TrimmedToNumber(trimmed).t # "nan"

\* the test of the filter of dataKeys on the value of the first record
IsMetricString(trimmed) ==
    IF trimmed = <<>> THEN FALSE
    ELSE IF EndsWithPercent(trimmed)
         THEN ParseFloat(SubSeq(trimmed, 1, Len(trimmed) - 1)).t # "nan"
    ELSE TrimmedToNumber(trimmed).t # "nan"

IsMetricValue(val) ==
    IF TypeOf(val) = "number" THEN TRUE
    ELSE IF TypeOf(val) = "string" THEN IsMetricString(Trim(val.s))
    ELSE FALSE

\* const dataKeys = useMemo(...)
\* return keys.length > 0 ? keys : ['value']
keysOrValue(keys) == IF Len(keys) > 0 THEN keys ELSE <<VALUE>>

dataKeys(dat) ==
    IF dat.isNull \/ Len(dat.rows) = 0 THEN <<VALUE>>
    ELSE LET Keep(k) == k # NAME /\ IsMetricValue(dat.rows[1][k])
         IN  keysOrValue(SelectSeq(dat.cols, Keep))

\* const chartColors
chartColors(cfg) ==
    IF Len(cfg.colors) > 0 /\ cfg.colors[1] # "#yanse1" THEN cfg.colors
    ELSE COLORS

\* const showLegend = geminiConfig.showLegend !== false
showLegend(cfg) == cfg.showLegend # JsBool(FALSE)

\* const showGrid = geminiConfig.showGrid !== false
showGrid(cfg) == cfg.showGrid # JsBool(FALSE)

\* const nameKey = (() => ...)()
\* return firstStringKey || 'name'
firstOrName(dims) ==
    IF dims # <<>> /\ dims[1] # <<>> THEN Str(dims[1]) ELSE Str(NAME)

nameKey(dat, cfg, dk) ==
    IF Truthy(cfg.dimension) THEN cfg.dimension
    ELSE IF Truthy(GetProperty(dat.rows[1], NAME)) THEN Str(NAME)
    ELSE LET NotMetric(k) == ~InSeq(dk, k)
         IN  firstOrName(SelectSeq(dat.cols, NotMetric))

\* const names = data.map(d => d[nameKey] || d.name || '')
names(dat, nk) ==
    [i \in DOMAIN dat.rows |->
        Or(Or(Get(dat.rows[i], nk), GetProperty(dat.rows[i], NAME)), Str(<<>>))]

\* Math.max(...vs) of a non-empty array
MaxOf(ns) ==
    IF NaN \in ns THEN NaN ELSE CHOOSE x \in ns : \A y \in ns : ~NumLess(x, y)

MathMax(vs) == MaxOf({ToNumber(vs[i]) : i \in DOMAIN vs})

\* Math.min(...vs) of a non-empty array
MinOf(ns) ==
    IF NaN \in ns THEN NaN ELSE CHOOSE x \in ns : \A y \in ns : ~NumLess(y, x)

MathMin(vs) == MinOf({ToNumber(vs[i]) : i \in DOMAIN vs})

\* Math.abs(v)
AbsOf(n) == IF n.t = "nan" THEN NaN ELSE NumAbs(n)

MathAbs(v) == AbsOf(ToNumber(v))

\* Array.from(new Set(vs)): the distinct values in the order of their first
\* occurrence
AppendNew(init, last) == IF InSeq(init, last) THEN init ELSE Append(init, last)

RECURSIVE Distinct(_)
Distinct(vs) ==
    IF vs = <<>> THEN <<>>
    ELSE AppendNew(Distinct(SubSeq(vs, 1, Len(vs) - 1)), vs[Len(vs)])

\* vs.filter(Boolean)
FilterTruthy(vs) == SelectSeq(vs, Truthy)

\* vs.indexOf(v): from 0, -1 when absent (NaN is never found)
IndexOf(vs, v) ==
    IF v.t # "nan" /\ InSeq(vs, v)
       THEN (CHOOSE i \in DOMAIN vs : vs[i] = v /\ \A j \in 1..(i - 1) : vs[j] # v) - 1
    ELSE -1

\* const baseOption (what it holds besides colours and fixed styles)
baseOption(typ, cfg) ==
    [ threw |-> FALSE,
      color |-> chartColors(cfg),
      tooltip |-> [ trigger |-> IF typ \in {"pie", "radar", "funnel"}
                                  THEN "item" ELSE "axis",
                    formatter |-> "function" ],
      legend |-> [ defined |-> showLegend(cfg), type |-> "scroll",
                   styled |-> showLegend(cfg), data |-> <<>> ],
      toolbox |-> "dataZoom,restore,saveAsImage" ]

-----------------------------------------------------------------------------
(* getOption, case by case *)

\* shu zhi: 'value', the name of the series of the column 'value'
SHUZHI == <<"shu", "zhi">>

\* the series of case 'line' / 'area' / 'bar' / 'mix' with every series drawn
\* in the geometry of the kind, the percentage ones too
categoricalSeries_KindGeometry(typ, dat, ttl, dk, dual) ==
    [i \in DOMAIN dk |->
        [ name |-> IF dk[i] = VALUE THEN Or(ttl, Str(SHUZHI)) ELSE Str(dk[i]),
          type |-> IF typ = "line" \/ typ = "area" THEN "line" ELSE "bar",
          yAxisIndex |-> IF dual /\ isPercentageKey(Str(dk[i])) THEN 1 ELSE 0,
          data |-> [r \in DOMAIN dat.rows |-> GetProperty(dat.rows[r], dk[i])],
          itemStyle |-> ~(typ = "line" \/ typ = "area"),
          smooth |-> TRUE,
          areaStyle |-> typ = "area",
          z |-> IF isPercentageKey(Str(dk[i])) THEN 10 ELSE 2 ] ]

\* the series of case 'line' / 'area' / 'bar' / 'mix' (lines 335-356)
categoricalSeries(typ, dat, ttl, dk, dual) ==
    [i \in DOMAIN dk |->
        LET key == dk[i]
            isPercent == isPercentageKey(Str(key))
            isDefaultLine == typ = "line" \/ typ = "area"
            seriesType == IF isPercent THEN "line"
                          ELSE IF typ = "mix" THEN "bar"
                          ELSE IF isDefaultLine THEN "line" ELSE "bar"
        IN  [ name |-> IF key = VALUE THEN Or(ttl, Str(SHUZHI)) ELSE Str(key),
              type |-> seriesType,
              yAxisIndex |-> IF dual /\ isPercent THEN 1 ELSE 0,
              data |-> [r \in DOMAIN dat.rows |-> GetProperty(dat.rows[r], key)],
              itemStyle |-> seriesType = "bar",
              smooth |-> TRUE,
              areaStyle |-> typ = "area",
              z |-> IF isPercent THEN 10 ELSE 2 ] ]

\* useDualAxis with percentKeys.length > 0 alone
useDualAxis_AnyPercent(dk) ==
    \E i \in DOMAIN dk : isPercentageKey(Str(dk[i]))

\* const useDualAxis (lines 287-289)
useDualAxis(dk) ==
    LET IsPct(k) == isPercentageKey(Str(k))
        IsPlain(k) == ~isPercentageKey(Str(k))
        percentKeys == SelectSeq(dk, IsPct)
        valueKeys == SelectSeq(dk, IsPlain)
    IN  Len(percentKeys) > 0 /\ Len(valueKeys) > 0

\* const primaryAxis (lines 291-302)
primaryAxis(cfg, percentKeys, valueKeys) ==
    [ type |-> "value", name |-> Or(cfg.yAxisLabel, Str(<<>>)),
      position |-> "left",
      formatKey |-> IF Len(valueKeys) > 0 THEN At(valueKeys, 0)
                    ELSE At(percentKeys, 0),
      splitLine |-> showGrid(cfg) ]

\* const secondaryAxis (lines 304-316)
secondaryAxis(percentKeys) ==
    [ type |-> "value", name |-> Str(<<>>), position |-> "right",
      formatKey |-> Or(At(percentKeys, 0), Str(<<"r", "a", "t", "e">>)),
      splitLine |-> FALSE ]

\* the object returned by case 'line' / 'area' / 'bar' / 'mix' (lines 318-357)
categoricalReturn(typ, dat, ttl, cfg, dk, ns, percentKeys, valueKeys, dual) ==
    baseOption(typ, cfg) @@
    [ xAxis |-> [ type |-> "category", data |-> ns,
                  name |-> Or(cfg.xAxisLabel, Str(<<>>)),
                  rotate |-> IF Len(ns) > 8 THEN 30 ELSE 0 ],
      yAxisIsArray |-> dual,
      yAxis |-> IF dual THEN << primaryAxis(cfg, percentKeys, valueKeys),
                                secondaryAxis(percentKeys) >>
                ELSE << primaryAxis(cfg, percentKeys, valueKeys) >>,
      series |-> categoricalSeries(typ, dat, ttl, dk, dual) ]

\* case 'line' / 'area' / 'bar' / 'mix'
categoricalOption(typ, dat, ttl, cfg, dk, nk) ==
    LET IsPct(k) == isPercentageKey(Str(k))
        IsPlain(k) == ~isPercentageKey(Str(k))
    IN  categoricalReturn(typ, dat, ttl, cfg, dk, names(dat, nk),
                          SelectSeq(dk, IsPct), SelectSeq(dk, IsPlain),
                          useDualAxis(dk))

\* case 'pie'
pieOption(typ, dat, ttl, cfg, dk, nk) ==
    baseOption(typ, cfg) @@
    [ series |-> << [ type |-> "pie",
                      data |-> [i \in DOMAIN dat.rows |->
                          [ name |-> Or(Get(dat.rows[i], nk),
                                        GetProperty(dat.rows[i], NAME)),
                            value |-> Or(Get(dat.rows[i], At(dk, 0)),
                                         GetProperty(dat.rows[i], VALUE)) ]],
                      label |-> "{b}: {d}%" ] >> ]

\* case 'scatter'
scatterOption(typ, dat, ttl, cfg, dk, nk) ==
    baseOption(typ, cfg) @@
    [ xAxis |-> [ type |-> "value",
                  name |-> Or(cfg.xAxisLabel, Or(At(dk, 0), Str(<<"X">>))) ],
      yAxis |-> [ type |-> "value",
                  name |-> Or(cfg.yAxisLabel, Or(At(dk, 1), Str(<<"Y">>))),
                  splitLine |-> showGrid(cfg) ],
      series |-> << [ name |-> Or(ttl, Str(DATA_GROUP)),
                      type |-> "scatter",
                      data |-> [i \in DOMAIN dat.rows |->
                          LET d == dat.rows[i]
                          IN  << Or(Get(d, At(dk, 0)), GetProperty(d, VALUE)),
                                 Or(Or(Get(d, At(dk, 1)), Get(d, At(dk, 0))),
                                    GetProperty(d, VALUE)) >>],
                      labelShow |-> Len(dat.rows) <= 15 ] >> ]

\* floor of the square root of a natural number
RECURSIVE ISqrt(_)
ISqrt(n) ==
    IF n < 2 THEN n
    ELSE LET lo == 2 * ISqrt(n \div 4)
         IN  IF (lo + 1) * (lo + 1) > n THEN lo ELSE lo + 1

\* (Math.sqrt(v) / Math.sqrt(maxVal)) * 60 for finite v >= 0 and maxVal > 0,
\* to two decimals (exact when v / maxVal is the square of such a number)
SqrtScale(v, maxVal) ==
    Dec(ISqrt((3600 * 10000 * v.m * Pow10(maxVal.e))
              \div (maxVal.m * Pow10(v.e))), 2)

\* Math.min(80, raw) without the Math.max(10, ...) around it
clampSize_NoFloor(raw) == IF NumLess(Num(80), raw) THEN Num(80) ELSE raw

\* Math.min(a, b) of two finite numbers
Min2(a, b) == IF NumLess(b, a) THEN b ELSE a

\* Math.max(a, b) of two finite numbers
Max2(a, b) == IF NumLess(a, b) THEN b ELSE a

\* Math.max(10, Math.min(80, raw))   (line 432)
clampSize(raw) == Max2(Num(10), Min2(Num(80), raw))

\* lines 431-432 for v = Math.abs(Number(val))
sizeOfAbs(v, maxVal) ==
    IF v.t = "nan" THEN NaN ELSE clampSize(SqrtScale(v, maxVal))

\* const getSize = (val) => ...   (maxVal: the constant of line 428)
getSize(val, maxVal) == sizeOfAbs(MathAbs(val), maxVal)

\* const groupKey (lines 423-425)
bubbleGroupKey(dat, cfg, dk, nk) ==
    LET Groups(k) == k # NAME /\ Str(k) # nk /\ ~InSeq(dk, k)
        found == SelectSeq(dat.cols, Groups)
    IN  Or(cfg.seriesKey, At(found, 0))

\* the records at the positions idx, in that order
RowsAt(rows, idx) == [j \in DOMAIN idx |-> rows[idx[j]]]

\* const groups (lines 436-445) for gs, the group name of each record: the
\* group names in the order of Object.keys (no group value of the model is an
\* array index), the records of each, and whether groups[g].push threw because
\* groups[g] was an inherited member
groupsOf(dat, gs) ==
    [ threw |-> \E i \in DOMAIN gs : gs[i] \in ObjectPrototypeKeys,
      keys |-> Distinct(gs),
      rowsOf |-> [k \in {gs[i] : i \in DOMAIN gs} |->
                   LET Mine(i) == gs[i] = k
                   IN  RowsAt(dat.rows,
                              SelectSeq([i \in DOMAIN gs |-> i], Mine))] ]

\* const groups with the records without a group value left out
bubbleGroups_DropFalsy(dat, groupKey) ==
    IF Truthy(groupKey)
       THEN LET Grouped(d) == Truthy(Get(d, groupKey))
                kept == SelectSeq(dat.rows, Grouped)
            IN  groupsOf([dat EXCEPT !.rows = kept],
                         [i \in DOMAIN kept |-> JsToString(Get(kept[i], groupKey))])
    ELSE [ threw |-> FALSE,
           keys |-> <<DATA_GROUP>>,
           rowsOf |-> [k \in {DATA_GROUP} |-> dat.rows] ]

\* const groups (lines 436-445)
bubbleGroups(dat, groupKey) ==
    IF Truthy(groupKey)
       THEN groupsOf(dat, [i \in DOMAIN dat.rows |->
               JsToString(Or(Get(dat.rows[i], groupKey), Str(UNCATEGORIZED)))])
    ELSE [ threw |-> FALSE,
           keys |-> <<DATA_GROUP>>,
           rowsOf |-> [k \in {DATA_GROUP} |-> dat.rows] ]

\* what a call of getOption that throws leaves: no specification
Thrown == [threw |-> TRUE]

\* const maxVal (line 428)
bubbleMaxVal(dat, sizeKey) ==
    Or(MathMax([i \in DOMAIN dat.rows |->
                   MathAbs(Or(Get(dat.rows[i], sizeKey), Num(0)))]),
       Num(1))

\* one series of case 'bubble' (lines 491-509): mine = groups[gName]; the
\* size of each item is what the symbolSize callback returns for it
bubbleSeries(gName, mine, nk, xKey, yKey, sizeKey, maxVal) ==
    [ name |-> Str(gName),
      type |-> "scatter",
      data |-> [j \in DOMAIN mine |->
          << Get(mine[j], xKey), Get(mine[j], yKey), Get(mine[j], sizeKey),
             Or(Or(Get(mine[j], nk), GetProperty(mine[j], NAME)),
                Str(gName)) >>],
      symbolSize |-> [j \in DOMAIN mine |->
                         getSize(Get(mine[j], sizeKey), maxVal)],
      labelShow |-> TRUE ]

\* the object returned by case 'bubble' (lines 447-510)
bubbleReturn(typ, cfg, nk, xKey, yKey, sizeKey, maxVal, groups) ==
    IF groups.threw THEN Thrown
    ELSE [ legend |-> [ defined |-> TRUE, type |-> "scroll",
                        styled |-> showLegend(cfg),
                        data |-> [i \in DOMAIN groups.keys |->
                                     Str(groups.keys[i])] ],
           tooltip |-> [trigger |-> "item", formatter |-> "function"],
           xAxis |-> [ type |-> "value",
                       name |-> Or(cfg.xAxisLabel, xKey), scale |-> TRUE ],
           yAxis |-> [ type |-> "value",
                       name |-> Or(cfg.yAxisLabel, yKey), scale |-> TRUE ],
           sizeKey |-> sizeKey,
           series |-> [i \in DOMAIN groups.keys |->
               bubbleSeries(groups.keys[i], groups.rowsOf[groups.keys[i]],
                            nk, xKey, yKey, sizeKey, maxVal)] ]
         @@ baseOption(typ, cfg)

\* case 'bubble' once sizeKey is known
bubbleOfKeys(typ, dat, cfg, nk, xKey, yKey, sizeKey, groupKey) ==
    bubbleReturn(typ, cfg, nk, xKey, yKey, sizeKey,
                 bubbleMaxVal(dat, sizeKey), bubbleGroups(dat, groupKey))

\* case 'bubble'
bubbleOption(typ, dat, ttl, cfg, dk, nk) ==
    bubbleOfKeys(typ, dat, cfg, nk,
                 Or(Or(cfg.xDataKey, At(dk, 0)), Str(VALUE)),
                 Or(Or(Or(cfg.yDataKey, At(dk, 1)), At(dk, 0)), Str(VALUE)),
                 Or(Or(Or(cfg.sizeDataKey, At(dk, 2)), At(dk, 0)), Str(VALUE)),
                 bubbleGroupKey(dat, cfg, dk, nk))

\* n * 1.2
Times12(n) == IF n.t = "nan" THEN NaN ELSE Dec(n.m * 12, n.e + 1)

\* case 'radar'
radarOption(typ, dat, ttl, cfg, dk, nk) ==
    baseOption(typ, cfg) @@
    [ radar |-> [ indicator |-> [i \in DOMAIN dk |->
                    [ name |-> Str(dk[i]),
                      max |-> Times12(MathMax([r \in DOMAIN dat.rows |->
                                 Or(GetProperty(dat.rows[r], dk[i]), Num(0))])) ]] ],
      series |-> << [ type |-> "radar",
                      data |-> [r \in DOMAIN dat.rows |->
                          [ name |-> GetProperty(dat.rows[r], NAME),
                            value |-> [i \in DOMAIN dk |->
                                Or(GetProperty(dat.rows[r], dk[i]), Num(0))] ]] ] >> ]

\* case 'funnel' with the colour of record i + 1 given to record i
funnelOption_NextColor(typ, dat, ttl, cfg, dk, nk) ==
    LET colors == chartColors(cfg)
    IN  baseOption(typ, cfg) @@
        [ series |-> << [ type |-> "funnel",
                          min |-> Num(0),
                          max |-> MathMax([r \in DOMAIN dat.rows |->
                                     Or(Or(Get(dat.rows[r], At(dk, 0)),
                                           GetProperty(dat.rows[r], VALUE)),
                                        Num(0))]),
                          sort |-> "descending",
                          data |-> [r \in DOMAIN dat.rows |->
                              [ name |-> GetProperty(dat.rows[r], NAME),
                                value |-> Or(Get(dat.rows[r], At(dk, 0)),
                                             GetProperty(dat.rows[r], VALUE)),
                                color |-> colors[(r % Len(colors)) + 1] ]] ] >> ]

\* case 'funnel'
funnelOption(typ, dat, ttl, cfg, dk, nk) ==
    LET colors == chartColors(cfg)
    IN  baseOption(typ, cfg) @@
        [ series |-> << [ type |-> "funnel",
                          min |-> Num(0),
                          max |-> MathMax([r \in DOMAIN dat.rows |->
                                     Or(Or(Get(dat.rows[r], At(dk, 0)),
                                           GetProperty(dat.rows[r], VALUE)),
                                        Num(0))]),
                          sort |-> "descending",
                          data |-> [r \in DOMAIN dat.rows |->
                              [ name |-> GetProperty(dat.rows[r], NAME),
                                value |-> Or(Get(dat.rows[r], At(dk, 0)),
                                             GetProperty(dat.rows[r], VALUE)),
                                color |-> colors[((r - 1) % Len(colors)) + 1] ]] ] >> ]

\* const hValKey / const mapValKey
selectedMetric(cfg, dk, mo) ==
    Or(Or(Or(mo, cfg.metricKey), At(dk, 0)), Str(VALUE))

\* the visualMap of case 'heatmap': no range is given
heatmapVisualMap(maxHVal) ==
    [ min |-> Num(0), max |-> maxHVal, hasRange |-> FALSE,
      range |-> <<>>, calculable |-> TRUE ]

\* maxHVal without the `|| 100` of line 600
heatmapMaxVal_NoFallback(dat, hValKey) ==
    MathMax([r \in DOMAIN dat.rows |-> parseVal(Get(dat.rows[r], hValKey))])

\* const maxHVal (line 600)
heatmapMaxVal(dat, hValKey) ==
    Or(MathMax([r \in DOMAIN dat.rows |->
                   parseVal(Get(dat.rows[r], hValKey))]), Num(100))

\* heatmapData without the filter of line 598
heatmapData_Unfiltered(dat, hxKey, hyKey, hValKey, xCats, yCats) ==
    [r \in DOMAIN dat.rows |->
        << IndexOf(xCats, Get(dat.rows[r], hxKey)),
           IndexOf(yCats, Get(dat.rows[r], hyKey)),
           parseVal(Get(dat.rows[r], hValKey)) >>]

\* const heatmapData (lines 593-598)
heatmapData(dat, hxKey, hyKey, hValKey, xCats, yCats) ==
    LET Matched(item) == item[1] # -1 /\ item[2] # -1
    IN  SelectSeq([r \in DOMAIN dat.rows |->
                      << IndexOf(xCats, Get(dat.rows[r], hxKey)),
                         IndexOf(yCats, Get(dat.rows[r], hyKey)),
                         parseVal(Get(dat.rows[r], hValKey)) >>], Matched)

\* the object returned by case 'heatmap' (lines 602-656)
heatmapReturn(typ, dat, ttl, cfg, hxKey, hyKey, hValKey, xCats, yCats) ==
    [ tooltip |-> [trigger |-> "item", formatter |-> "function"],
      xAxis |-> [type |-> "category", data |-> xCats],
      yAxis |-> [type |-> "category", data |-> yCats],
      valKey |-> hValKey,
      visualMap |-> heatmapVisualMap(heatmapMaxVal(dat, hValKey)),
      series |-> << [ name |-> Or(ttl, Str(<<"re", "li", "tu">>)),
                      type |-> "heatmap",
                      data |-> heatmapData(dat, hxKey, hyKey, hValKey,
                                           xCats, yCats) ] >> ]
    @@ baseOption(typ, cfg)

\* const xCats / const yCats (lines 579-580)
heatmapCats(dat, key) ==
    FilterTruthy(Distinct([r \in DOMAIN dat.rows |-> Get(dat.rows[r], key)]))

\* case 'heatmap' once its keys are known
heatmapOfKeys(typ, dat, ttl, cfg, hxKey, hyKey, hValKey) ==
    heatmapReturn(typ, dat, ttl, cfg, hxKey, hyKey, hValKey,
                  heatmapCats(dat, hxKey), heatmapCats(dat, hyKey))

\* case 'heatmap' once stringKeysHM is known
heatmapOfStringKeys(typ, dat, ttl, cfg, dk, mo, stringKeysHM) ==
    heatmapOfKeys(typ, dat, ttl, cfg,
                  Or(Or(cfg.xDataKey, At(stringKeysHM, 0)), Str(<<"x">>)),
                  Or(Or(Or(cfg.yDataKey, At(stringKeysHM, 1)),
                        At(stringKeysHM, 0)), Str(<<"y">>)),
                  selectedMetric(cfg, dk, mo))

\* case 'heatmap'
heatmapOption(typ, dat, ttl, cfg, dk, nk, mo) ==
    LET NotMetric(k) == k # NAME /\ ~InSeq(dk, k)
    IN  heatmapOfStringKeys(typ, dat, ttl, cfg, dk, mo,
                            SelectSeq(dat.cols, NotMetric))

\* the visualMap of case 'map' with the range left out, as in case 'heatmap'
mapVisualMap_NoRange(minMapVal, maxMapVal) ==
    [ min |-> minMapVal, max |-> maxMapVal, hasRange |-> FALSE,
      range |-> <<>>, calculable |-> TRUE ]

\* the visualMap of case 'map' (lines 690-700)
mapVisualMap(minMapVal, maxMapVal) ==
    [ min |-> minMapVal, max |-> maxMapVal, hasRange |-> TRUE,
      range |-> <<minMapVal, maxMapVal>>, calculable |-> TRUE ]

\* the object returned by case 'map' (lines 677-719)
mapReturn(typ, dat, ttl, cfg, mapNameKey, mapValKey, minMapVal, maxMapVal) ==
    [ tooltip |-> [trigger |-> "item", formatter |-> "function"],
      valKey |-> mapValKey,
      visualMap |-> mapVisualMap(minMapVal, maxMapVal),
      series |-> << [ name |-> Or(ttl, Str(<<"di", "tu">>)),
                      type |-> "map",
                      map |-> "china",
                      data |-> [r \in DOMAIN dat.rows |->
                          [ name |-> normalizeProvinceName(
                                Or(Get(dat.rows[r], mapNameKey),
                                   GetProperty(dat.rows[r], NAME))),
                            value |-> parseMapVal(
                                Or(Get(dat.rows[r], mapValKey),
                                   GetProperty(dat.rows[r], VALUE))) ]] ] >> ]
    @@ baseOption(typ, cfg)

\* case 'map' once vals is known (lines 674-675)
mapOfVals(typ, dat, ttl, cfg, mapNameKey, mapValKey, vals) ==
    mapReturn(typ, dat, ttl, cfg, mapNameKey, mapValKey,
              Or(MathMin(vals), Num(0)), Or(MathMax(vals), Num(100)))

\* case 'map' once mapValKey is known (line 673)
mapOfKey(typ, dat, ttl, cfg, mapNameKey, mapValKey) ==
    mapOfVals(typ, dat, ttl, cfg, mapNameKey, mapValKey,
              [r \in DOMAIN dat.rows |->
                  parseMapVal(Get(dat.rows[r], mapValKey))])

\* case 'map'
mapOption(typ, dat, ttl, cfg, dk, nk, mo) ==
    mapOfKey(typ, dat, ttl, cfg, nk, selectedMetric(cfg, dk, mo))

\* the object returned by the default case (lines 723-746)
defaultReturn(typ, dat, ttl, cfg, dk, ns) ==
    baseOption(typ, cfg) @@
    [ xAxis |-> [ type |-> "category", data |-> ns,
                  rotate |-> IF Len(ns) > 8 THEN 30 ELSE 0 ],
      yAxisIsArray |-> FALSE,
      yAxis |-> << [ type |-> "value", position |-> "left",
                     splitLine |-> showGrid(cfg) ] >>,
      series |-> [i \in DOMAIN dk |->
          [ name |-> IF dk[i] = VALUE THEN Or(ttl, Str(SHUZHI))
                     ELSE Str(dk[i]),
            type |-> "bar",
            data |-> [r \in DOMAIN dat.rows |->
                         GetProperty(dat.rows[r], dk[i])],
            itemStyle |-> TRUE ]] ]

\* default: the bar chart of an unrecognised kind
defaultOption(typ, dat, ttl, cfg, dk, nk) ==
    defaultReturn(typ, dat, ttl, cfg, dk, names(dat, nk))

\* the switch of getOption with the selected metric honoured by every case:
\* once a metric is selected it is the one column plotted
optionSwitch_SelectedOnly(typ, dat, ttl, cfg, mo, dk, nk) ==
    CASE typ \in {"line", "area", "bar", "mix"} ->
            categoricalOption(typ, dat, ttl, cfg,
                              IF Truthy(mo) THEN <<mo.s>> ELSE dk, nk)
      [] typ = "pie" -> pieOption(typ, dat, ttl, cfg, dk, nk)
      [] typ = "scatter" -> scatterOption(typ, dat, ttl, cfg, dk, nk)
      [] typ = "bubble" -> bubbleOption(typ, dat, ttl, cfg, dk, nk)
      [] typ = "radar" -> radarOption(typ, dat, ttl, cfg, dk, nk)
      [] typ = "funnel" -> funnelOption(typ, dat, ttl, cfg, dk, nk)
      [] typ = "heatmap" -> heatmapOption(typ, dat, ttl, cfg, dk, nk, mo)
      [] typ = "map" -> mapOption(typ, dat, ttl, cfg, dk, nk, mo)
      [] OTHER -> defaultOption(typ, dat, ttl, cfg, dk, nk)

\* the switch of getOption (lines 280-747)
optionSwitch(typ, dat, ttl, cfg, mo, dk, nk) ==
    CASE typ \in {"line", "area", "bar", "mix"} ->
            categoricalOption(typ, dat, ttl, cfg, dk, nk)
      [] typ = "pie" -> pieOption(typ, dat, ttl, cfg, dk, nk)
      [] typ = "scatter" -> scatterOption(typ, dat, ttl, cfg, dk, nk)
      [] typ = "bubble" -> bubbleOption(typ, dat, ttl, cfg, dk, nk)
      [] typ = "radar" -> radarOption(typ, dat, ttl, cfg, dk, nk)
      [] typ = "funnel" -> funnelOption(typ, dat, ttl, cfg, dk, nk)
      [] typ = "heatmap" -> heatmapOption(typ, dat, ttl, cfg, dk, nk, mo)
      [] typ = "map" -> mapOption(typ, dat, ttl, cfg, dk, nk, mo)
      [] OTHER -> defaultOption(typ, dat, ttl, cfg, dk, nk)

\* getOption for the dataKeys of the render
optionOfKeys(typ, dat, ttl, cfg, mo, dk) ==
    optionSwitch(typ, dat, ttl, cfg, mo, dk, nameKey(dat, cfg, dk))

\* const getOption = () => ...   (data is not empty)
getOption(typ, dat, ttl, cfg, mo) ==
    optionOfKeys(typ, dat, ttl, cfg, mo, dataKeys(dat))

-----------------------------------------------------------------------------
(* ChartRenderer: one render *)

\* const effectiveType (line 751)
effectiveType(typ, cfg) ==
    IF cfg.chartType # "" THEN cfg.chartType
    ELSE IF typ # "" THEN typ ELSE "bar"

\* const isMapLike (line 752)
isMapLike(typ, cfg) ==
    \/ effectiveType(typ, cfg) = "heatmap"
    \/ effectiveType(typ, cfg) = "map"
    \/ typ = "map"
    \/ typ = "heatmap"

\* const showMetricToggle and the buttons (lines 753-773)
toggleOfKeys(typ, cfg, mo, dk) ==
    [ shown |-> isMapLike(typ, cfg) /\ Len(dk) > 1,
      keys |-> dk,
      selected |-> Or(mo, At(dk, 0)) ]

metricToggle(typ, dat, cfg, mo) == toggleOfKeys(typ, cfg, mo, dataKeys(dat))

\* the chart returned for a specification (lines 755-781)
chartView(option, toggle) ==
    IF option.threw THEN [kind |-> "threw"]
    ELSE [kind |-> "chart", option |-> option, toggle |-> toggle]

\* the component with the check of the record set put before the check of
\* the boundary dataset
ChartRenderer_EmptyFirst(typ, dat, ttl, cfg, mo, ml) ==
    IF dat.isNull \/ Len(dat.rows) = 0 THEN [kind |-> "noData"]
    ELSE IF typ = "map" /\ ~ml THEN [kind |-> "mapLoading"]
    ELSE IF typ = "table" THEN [kind |-> "table"]
    ELSE IF typ = "image"
         THEN IF Truthy(Or(cfg.imageUrl, GetProperty(dat.rows[1], VALUE)))
                 THEN [kind |-> "image"]
              ELSE [kind |-> "noImage"]
    ELSE chartView(getOption(typ, dat, ttl, cfg, mo),
                   metricToggle(typ, dat, cfg, mo))

\* what the component returns (lines 170-222 and 755-781)
ChartRenderer(typ, dat, ttl, cfg, mo, ml) ==
    IF typ = "map" /\ ~ml THEN [kind |-> "mapLoading"]
    ELSE IF dat.isNull \/ Len(dat.rows) = 0 THEN [kind |-> "noData"]
    ELSE IF typ = "table" THEN [kind |-> "table"]
    ELSE IF typ = "image"
         THEN IF Truthy(Or(cfg.imageUrl, GetProperty(dat.rows[1], VALUE)))
                 THEN [kind |-> "image"]
              ELSE [kind |-> "noImage"]
    ELSE chartView(getOption(typ, dat, ttl, cfg, mo),
                   metricToggle(typ, dat, cfg, mo))

\* the chart instance has no legend range of its own
NoRange == [set |-> FALSE, lo |-> Num(0), hi |-> Num(0)]

\* ReactECharts hands the option to the chart instance, which merges it into
\* the one it holds: a range given in the option replaces the range selected
\* in the legend, an option without one keeps it (comment of line 693)
setOption(range, v) ==
    IF v.kind # "chart" THEN NoRange
    ELSE IF "visualMap" \notin DOMAIN v.option THEN NoRange
    ELSE IF v.option.visualMap.hasRange
         THEN [ set |-> TRUE, lo |-> v.option.visualMap.range[1],
                hi |-> v.option.visualMap.range[2] ]
    ELSE range

\* the range the legend shows as selected: its own, else the whole extent
activeRange(range, v) ==
    IF range.set THEN <<range.lo, range.hi>>
    ELSE <<v.option.visualMap.min, v.option.visualMap.max>>

NoFirst == [set |-> FALSE]

\* history: the specification of the first chart render is kept
RecordFirst(f, v) ==
    IF f.set \/ v.kind # "chart" THEN f
    ELSE [set |-> TRUE, option |-> v.option]

-----------------------------------------------------------------------------
(* The component as a state machine: Spec *)

Kinds ==
    { "bar", "line", "area", "mix", "pie", "scatter", "bubble", "radar",
      "funnel", "heatmap", "map", "table", "image", "gauge" }

\* the record sets drawn for each kind
DataFor(typ) ==
    {NullData, EmptyData} \cup
    CASE typ \in {"bar", "line", "area", "mix", "gauge"} ->
            DataSetsOf("plain") \cup DataSetsOf("dual") \cup DataSetsOf("pct")
            \cup DataSetsOf("text")
      [] typ = "bubble" -> DataSetsOf("cross") \cup DataSetsOf("bubble")
      [] typ \in {"heatmap", "map"} -> DataSetsOf("cross")
      [] OTHER -> DataSetsOf("plain") \cup DataSetsOf("dual")
                  \cup DataSetsOf("text")

\* the hints drawn for each kind
HintsFor(typ) ==
    {NoHints, [NoHints EXCEPT !.showLegend = JsBool(FALSE)]} \cup
    CASE typ \in {"bar", "line", "area", "mix", "gauge"} ->
            {[NoHints EXCEPT !.chartType = "heatmap"]}
      [] typ = "bubble" ->
            {[NoHints EXCEPT !.sizeDataKey = Str(SALES)]}
      [] typ \in {"heatmap", "map"} ->
            {[NoHints EXCEPT !.metricKey = Str(GROWTH)]}
      [] typ = "image" ->
            {[NoHints EXCEPT !.imageUrl = Str(<<"u", "r", "l">>)]}
      [] typ = "funnel" ->
            {[NoHints EXCEPT !.colors = <<"#0f172a", "#64748b">>]}
      [] OTHER -> {}

\* the titles drawn for each kind
TitlesFor(typ) ==
    IF typ \in {"bar", "pie"} THEN {Undefined, Str(<<"T">>)} ELSE {Undefined}

\* no page of several maps, no chat and no dashboard is at work
MapsIdle == instances = <<>>

ChatIdle ==
    /\ isProcessing = FALSE
    /\ abortControllerRef = 0
    /\ queries = <<>>

DashIdle ==
    /\ currentDashboardId = 0
    /\ dashboardItems = 0
    /\ requests = <<>>

AppIdle == MapsIdle /\ ChatIdle /\ DashIdle

FnIdle ==
    /\ arg = Undefined
    /\ ret = Undefined

\* after the first render, before the effects have run
Init ==
    /\ pc = "rendered"
    /\ FnIdle
    /\ AppIdle
    /\ type \in Kinds
    /\ data \in DataFor(type)
    /\ geminiConfig \in HintsFor(type)
    /\ title \in TitlesFor(type)
    /\ metricOverride = Undefined
    /\ mapLoaded = FALSE
    /\ chinaMap \in (IF type = "map" THEN BOOLEAN ELSE {FALSE})
    /\ fetchState = "none"
    /\ view = ChartRenderer(type, data, title, geminiConfig, Undefined, FALSE)
    /\ legendRange = setOption(NoRange, view)
    /\ first = RecordFirst(NoFirst, view)

\* a render with the state as it will be, handed to the chart instance
Rerender ==
    /\ view' = ChartRenderer(type, data, title, geminiConfig,
                             metricOverride', mapLoaded')
    /\ legendRange' = setOption(legendRange, view')
    /\ first' = RecordFirst(first, view')

\* useEffect(() => ..., [type]) (lines 120-135)
MountEffect ==
    /\ pc = "rendered"
    /\ pc' = "mounted"
    /\ IF type = "map" /\ ~chinaMap
          THEN /\ fetchState' = "pending"
               /\ UNCHANGED <<mapLoaded, view, legendRange, first>>
       ELSE IF type = "map"
          THEN /\ mapLoaded' = TRUE
               /\ UNCHANGED <<fetchState, metricOverride>>
               /\ Rerender
       ELSE UNCHANGED <<fetchState, mapLoaded, view, legendRange, first>>
    /\ UNCHANGED <<ioVars, appVars, type, data, geminiConfig, title, metricOverride,
                   chinaMap>>

\* the fetch of the boundary dataset succeeds (lines 124-128)
FetchResolve ==
    /\ fetchState = "pending"
    /\ fetchState' = "done"
    /\ chinaMap' = TRUE
    /\ mapLoaded' = TRUE
    /\ pc' = "loaded"
    /\ UNCHANGED metricOverride
    /\ Rerender
    /\ UNCHANGED <<ioVars, appVars, type, data, geminiConfig, title>>

\* the fetch fails (line 129)
FetchReject ==
    /\ fetchState = "pending"
    /\ fetchState' = "failed"
    /\ pc' = "failed"
    /\ UNCHANGED <<ioVars, appVars, type, data, geminiConfig, title, metricOverride,
                   mapLoaded, chinaMap, view, legendRange, first>>

\* onClick={() => setMetricOverride(k)} (line 763)
ClickMetric ==
    /\ view.kind = "chart"
    /\ view.toggle.shown
    /\ \E i \in DOMAIN view.toggle.keys :
          metricOverride' = Str(view.toggle.keys[i])
    /\ pc' = "selected"
    /\ UNCHANGED mapLoaded
    /\ Rerender
    /\ UNCHANGED <<ioVars, appVars, type, data, geminiConfig, title, chinaMap,
                   fetchState>>

\* the parent renders the component with another record set: the state of
\* the component (metricOverride, mapLoaded) and the chart instance are kept.
\* Followed once a metric has been selected (before that the component holds
\* no state a fresh mount would not have), to the record sets of one record at
\* most (the first record decides the metric columns).
ChangeData ==
    /\ Truthy(metricOverride)
    /\ \E d \in ({NullData, EmptyData} \cup UNION {
                  { [isNull |-> FALSE, cols |-> Schemas[s],
                     rows |-> <<Row(Schemas[s], v)>>] : v \in RowPool[s] } :
                  s \in IF type \in {"heatmap", "map"} THEN {"cross"}
                        ELSE {"plain", "dual", "pct", "text"} }) \ {data} :
          /\ data' = d
          /\ view' = ChartRenderer(type, d, title, geminiConfig,
                                   metricOverride, mapLoaded)
    /\ legendRange' = setOption(legendRange, view')
    /\ first' = RecordFirst(NoFirst, view')
    /\ pc' = "changed"
    /\ UNCHANGED <<ioVars, appVars, type, geminiConfig, title, metricOverride,
                   mapLoaded, chinaMap, fetchState>>

\* the values of the records shown by a chart with a legend
legendStops(v) ==
    LET s == v.option.series[1].data
    IN  { IF v.option.series[1].type = "map" THEN s[i].value ELSE s[i][3] :
            i \in DOMAIN s }

\* the user drags the lower handle of the legend (calculable: true)
DragLegend ==
    /\ view.kind = "chart"
    /\ "visualMap" \in DOMAIN view.option
    /\ \E x \in legendStops(view) :
          /\ x.t = "num"
          /\ view.option.visualMap.max.t = "num"
          /\ NumLess(view.option.visualMap.min, x)
          /\ ~NumLess(view.option.visualMap.max, x)
          /\ legendRange' = [set |-> TRUE, lo |-> x,
                             hi |-> view.option.visualMap.max]
    /\ pc' = "dragged"
    /\ UNCHANGED <<ioVars, appVars, type, data, geminiConfig, title, metricOverride,
                   mapLoaded, chinaMap, fetchState, view, first>>

Next ==
    \/ MountEffect
    \/ FetchResolve
    \/ FetchReject
    \/ ClickMetric
    \/ ChangeData
    \/ DragLegend

Spec == Init /\ [][Next]_vars

-----------------------------------------------------------------------------
(* The value parsers on their own: SpecCoerce *)

\* the component is not mounted
ChartIdle ==
    /\ type = "none"
    /\ data = NullData
    /\ geminiConfig = NoHints
    /\ metricOverride = Undefined
    /\ mapLoaded = FALSE
    /\ chinaMap = FALSE
    /\ fetchState = "none"
    /\ title = Undefined
    /\ legendRange = NoRange
    /\ view = [kind |-> "none"]
    /\ first = NoFirst
    /\ AppIdle

\* the parsers are handed every string of at most MaxStrLen characters, the
\* strings of the documentation, some numbers, NaN and undefined
InitCoerce ==
    /\ pc = "call"
    /\ arg \in LET alphabet == {"0", "1", "5", ".", "%", " ", "a", "-"}
                   strings ==
                       UNION {[1..k -> alphabet] : k \in 0..MaxStrLen}
                       \cup { <<"1", "2", ".", "5", "%">>, <<" ", "4", "2", " ">>,
                              <<"1", "2", "a", "b", "c">>, <<"a", "b", "c", "%">>,
                              <<"1", ".", "5", ".", "2">>,
                              <<"-", "0", ".", "5", "%", " ">> }
               IN  {Str(s) : s \in strings}
                   \cup {Num(42), Num(0), Num(-7), Dec(125, 1), NaN, Undefined}
    /\ ret = Undefined
    /\ ChartIdle

CallParseVal ==
    /\ pc = "call"
    /\ pc' = "parseVal"
    /\ ret' = parseVal(arg)
    /\ UNCHANGED <<arg, chartVars, appVars>>

CallParseMapVal ==
    /\ pc = "call"
    /\ pc' = "parseMapVal"
    /\ ret' = parseMapVal(arg)
    /\ UNCHANGED <<arg, chartVars, appVars>>

NextCoerce == CallParseVal \/ CallParseMapVal

SpecCoerce == InitCoerce /\ [][NextCoerce]_vars

-----------------------------------------------------------------------------
(* normalizeProvinceName on its own: SpecNormalize *)

\* a name of the alias table, a name of the boundary dataset or a name that
\* is neither, between at most MaxPad blanks on each side; or a value that is
\* no string
InitNormalize ==
    /\ pc = "call"
    /\ arg \in LET Blanks(n) == [i \in 1..n |-> " "]
                   OtherNames ==
                       { <<>>, <<"shaan">>, <<"xi", "an">>, <<"shaan", " ", "xi">>,
                         <<"shaan", "xi", "sheng", "sheng">>, <<"sheng">>,
                         <<"c", "o", "n", "s", "t", "r", "u", "c", "t", "o", "r">>,
                         <<"t", "o", "S", "t", "r", "i", "n", "g">> }
               IN  { Str(Blanks(l) \o b \o Blanks(r)) :
                       l \in 0..MaxPad, r \in 0..MaxPad,
                       b \in DOMAIN PROVINCE_ALIAS \cup ProvinceAliasValues
                                \cup OtherNames }
                   \cup {Undefined, Num(0), Num(5)}
    /\ ret = Undefined
    /\ ChartIdle

CallNormalize ==
    /\ pc = "call"
    /\ pc' = "normalized"
    /\ ret' = normalizeProvinceName(arg)
    /\ UNCHANGED <<arg, chartVars, appVars>>

NextNormalize == CallNormalize

SpecNormalize == InitNormalize /\ [][NextNormalize]_vars

-----------------------------------------------------------------------------
(* formatValue on its own: SpecFormat *)

\* the values and column names handed to formatValue: decimals m / 10^e, large
\* integers, strings, NaN and undefined; zhuan hua lv is 'conversion rate'.
\* A decimal whose second decimal place is an exact half that binary floating
\* point does not represent (0.05, 0.15, ...) is left out: toFixed rounds it
\* by its binary expansion, which the decimals of the model do not have.
InitFormat ==
    LET mantissas == {0, 1, 4, 5, 12, 104, 105, 106, 125, 333, 999, 1000,
                      1234, 9999}
        small == {Dec(s * m, e) : s \in {-1, 1}, m \in mantissas, e \in 0..3}
        TieFree(n) == \/ n.e < 2
                      \/ 2 * (NumAbs(n).m % Pow10(n.e - 1)) # Pow10(n.e - 1)
                      \/ n.e = 2 /\ n.m % 25 = 0
        large == {Num(s * m) : s \in {-1, 1},
                     m \in {10000, 12500, 25000, 99949, 99999999, 100000000,
                            123456789, 150000000}}
        strings == {Str(<<>>), Str(<<"a", "b", "c">>), Str(<<"1", "2", ".", "5">>),
                    Str(<<"1", "2", "%">>), Str(<<" ", "7", " ">>)}
        keys == {Str(<<"zhuan", "hua", "lv">>), Str(SALES),
                 Str(<<"R", "a", "t", "e">>), Str(<<>>), Undefined}
    IN  /\ pc = "call"
        /\ arg \in [value : {n \in small : TieFree(n)} \cup large \cup strings
                              \cup {NaN, Undefined},
                    key : keys]
        /\ ret = Undefined
        /\ ChartIdle

CallFormatValue ==
    /\ pc = "call"
    /\ pc' = "formatValue"
    /\ ret' = formatValue(arg.value, arg.key)
    /\ UNCHANGED <<arg, chartVars, appVars>>

CallTableFormatValue ==
    /\ pc = "call"
    /\ pc' = "tableFormatValue"
    /\ ret' = tableFormatValue(arg.value, arg.key)
    /\ UNCHANGED <<arg, chartVars, appVars>>

NextFormat == CallFormatValue \/ CallTableFormatValue

SpecFormat == InitFormat /\ [][NextFormat]_vars

-----------------------------------------------------------------------------
(* dataKeys and nameKey on their own: SpecClassify *)

\* the record sets handed to the two classifications: the first record takes
\* every combination of a few values in its columns (a text, an empty string,
\* numbers, a percentage, a percentage without digits, a padded number); a
\* second record, when there is one, holds numbers only or texts only.  The
\* column `name` is first, last or absent.  The hint names a column, a
\* column no record has, or nothing.
InitClassify ==
    LET SEG == <<"s", "e", "g">>
        REGION == <<"r", "e", "g", "i", "o", "n">>
        columns == { <<NAME, SALES>>, <<SEG, SALES, GROWTH>>,
                     <<SALES, SEG, NAME>>, <<SEG, REGION>> }
        cells == { Str(<<"A">>), Str(<<>>), Num(5), Num(0),
                   Str(<<"1", "2", "%">>), Str(<<"a", "b", "c", "%">>),
                   Str(<<" ", "7", " ">>), Str(<<"1", "2", "%", " ">>) }
        NumbersOnly(cols) == [c \in {cols[i] : i \in DOMAIN cols} |-> Num(3)]
        TextsOnly(cols) ==
            [c \in {cols[i] : i \in DOMAIN cols} |-> Str(<<"a", "b", "c">>)]
        RowsAfter(cols) == { <<>>, <<NumbersOnly(cols)>>, <<TextsOnly(cols)>> }
        sets == { [isNull |-> FALSE, cols |-> cols, rows |-> <<head>> \o tail] :
                     cols \in columns,
                     head \in UNION {[{cols[i] : i \in DOMAIN cols} -> cells]
                                        : cols \in columns},
                     tail \in UNION {RowsAfter(cols) : cols \in columns} }
        WellFormed(d) ==
            \A i \in DOMAIN d.rows :
                DOMAIN d.rows[i] = {d.cols[j] : j \in DOMAIN d.cols}
        dimensions == { Undefined, Str(SEG), Str(<<"m", "i", "s", "s">>) }
    IN  /\ pc = "call"
        /\ arg \in [ data : {d \in sets : WellFormed(d)} \cup {EmptyData, NullData},
                     cfg : {[NoHints EXCEPT !.dimension = h] : h \in dimensions} ]
        /\ ret = Undefined
        /\ ChartIdle

\* the memo of dataKeys is computed on every render, before any early return
CallDataKeys ==
    /\ pc = "call"
    /\ pc' = "dataKeys"
    /\ ret' = [keys |-> dataKeys(arg.data)]
    /\ UNCHANGED <<arg, chartVars, appVars>>

\* nameKey is computed in getOption, which runs on a record set that is not
\* empty only
CallNameKey ==
    /\ pc = "call"
    /\ ~arg.data.isNull /\ Len(arg.data.rows) > 0
    /\ pc' = "nameKey"
    /\ ret' = nameKey(arg.data, arg.cfg, dataKeys(arg.data))
    /\ UNCHANGED <<arg, chartVars, appVars>>

NextClassify == CallDataKeys \/ CallNameKey

SpecClassify == InitClassify /\ [][NextClassify]_vars

-----------------------------------------------------------------------------
(* Several map ChartRenderers on one page: SpecMaps *)

\* the instances are rendered and none has run its effect; echarts may hold
\* the map 'china' from an earlier page
InitMaps ==
    /\ pc = "page"
    /\ FnIdle
    /\ type = "map"
    /\ data = NullData
    /\ geminiConfig = NoHints
    /\ metricOverride = Undefined
    /\ mapLoaded = FALSE
    /\ chinaMap \in BOOLEAN
    /\ fetchState = "none"
    /\ title = Undefined
    /\ legendRange = NoRange
    /\ view = [kind |-> "none"]
    /\ first = NoFirst
    /\ instances \in UNION {[1..n -> {[ mounted |-> FALSE, mapLoaded |-> FALSE,
                                         fetch |-> "none" ]}] : n \in 1..MaxInstances}
    /\ ChatIdle
    /\ DashIdle

\* useEffect(() => ..., [type]) of instance i (lines 120-135)
MapMountEffect(i) ==
    /\ ~instances[i].mounted
    /\ instances' = [instances EXCEPT ![i] =
          IF ~chinaMap
             THEN [mounted |-> TRUE, mapLoaded |-> FALSE, fetch |-> "pending"]
          ELSE [mounted |-> TRUE, mapLoaded |-> TRUE, fetch |-> "none"]]
    /\ UNCHANGED chinaMap

\* the fetch of instance i succeeds: registerMap and setMapLoaded (lines 124-128)
MapFetchResolve(i) ==
    /\ instances[i].fetch = "pending"
    /\ instances' = [instances EXCEPT ![i].fetch = "done", ![i].mapLoaded = TRUE]
    /\ chinaMap' = TRUE

\* the fetch of instance i fails (line 129)
MapFetchReject(i) ==
    /\ instances[i].fetch = "pending"
    /\ instances' = [instances EXCEPT ![i].fetch = "failed"]
    /\ UNCHANGED chinaMap

MapsOnly ==
    UNCHANGED <<pc, ioVars, type, data, geminiConfig, metricOverride,
                mapLoaded, fetchState, title, legendRange, view, first,
                isProcessing, abortControllerRef, queries,
                currentDashboardId, dashboardItems, requests>>

NextMaps ==
    /\ \E i \in DOMAIN instances :
          \/ MapMountEffect(i)
          \/ MapFetchResolve(i)
          \/ MapFetchReject(i)
    /\ MapsOnly

SpecMaps == InitMaps /\ [][NextMaps]_vars

\* SpecMaps with the progress the runtime gives: React runs the effect of
\* every rendered component, and every fetch settles, fulfilled or rejected.
SpecMapsLive ==
    /\ SpecMaps
    /\ \A i \in 1..MaxInstances :
          /\ WF_vars(i \in DOMAIN instances /\ MapMountEffect(i) /\ MapsOnly)
          /\ WF_vars(/\ i \in DOMAIN instances
                     /\ MapFetchResolve(i) \/ MapFetchReject(i)
                     /\ MapsOnly)

-----------------------------------------------------------------------------
(* The chat handlers of App: SpecChat *)

\* queries[i] is the i-th call of handleSend that got past its early returns:
\* the await it is suspended at ("done" once its finally block has run) and
\* whether the signal of its AbortController has been aborted.
\* abortControllerRef is 0 for null, or i for the controller of queries[i].

\* App after its first render: useState(false), useRef(null), useState(null),
\* useState([]) (lines 149-165)
InitApp ==
    /\ pc = "page"
    /\ FnIdle
    /\ ChartIdle

ChatOnly ==
    UNCHANGED <<pc, ioVars, chartVars, instances, currentDashboardId,
                dashboardItems, requests>>

\* abortControllerRef.current.abort(): a request that is awaited rejects, and
\* the catch and finally blocks of its handleSend run before the next event;
\* a query waiting for its 800 ms timer only has its signal marked
abort(qs, i) ==
    [qs EXCEPT ![i] = [pos |-> IF @.pos \in {"identifyIntent", "queryData"}
                                  THEN "done" ELSE @.pos,
                       aborted |-> TRUE]]

\* handleSend up to its first await (lines 526-567). The input and the send
\* button are disabled while isProcessing (lines 1645, 1649).
handleSend ==
    /\ ~isProcessing
    /\ Len(queries) < MaxQueries
    /\ queries' = Append(IF abortControllerRef # 0
                            THEN abort(queries, abortControllerRef)
                         ELSE queries,
                         [pos |-> "identifyIntent", aborted |-> FALSE])
    /\ abortControllerRef' = Len(queries) + 1
    /\ isProcessing' = TRUE
    /\ ChatOnly

\* finally { setIsProcessing(false); abortControllerRef.current = null; }
\* (lines 609-612)
finally(i) ==
    /\ queries' = [queries EXCEPT ![i].pos = "done"]
    /\ isProcessing' = FALSE
    /\ abortControllerRef' = 0

\* identifyIntent answers (lines 567-582): 'irrelevant' returns through the
\* finally block, any other intent goes on to queryData
IntentResolves(i) ==
    /\ queries[i].pos = "identifyIntent"
    /\ \/ finally(i)
       \/ /\ queries' = [queries EXCEPT ![i].pos = "queryData"]
          /\ UNCHANGED <<isProcessing, abortControllerRef>>
    /\ ChatOnly

\* queryData answers (line 585): the handler waits 800 ms (line 588)
QueryResolves(i) ==
    /\ queries[i].pos = "queryData"
    /\ queries' = [queries EXCEPT ![i].pos = "delay"]
    /\ UNCHANGED <<isProcessing, abortControllerRef>>
    /\ ChatOnly

\* a request fails for a reason other than an abort (lines 597-608)
RequestFails(i) ==
    /\ queries[i].pos \in {"identifyIntent", "queryData"}
    /\ finally(i)
    /\ ChatOnly

\* the timer of line 588 fires: the answer is appended (lines 590-596) and
\* the finally block runs, aborted or not
DelayElapses(i) ==
    /\ queries[i].pos = "delay"
    /\ finally(i)
    /\ ChatOnly

\* handleStop (lines 992-997), from the button shown while isProcessing
handleStop ==
    /\ isProcessing
    /\ abortControllerRef # 0
    /\ queries' = abort(queries, abortControllerRef)
    /\ isProcessing' = FALSE
    /\ abortControllerRef' =
          IF queries[abortControllerRef].pos \in {"identifyIntent", "queryData"}
             THEN 0 ELSE abortControllerRef
    /\ ChatOnly

NextChat ==
    \/ handleSend
    \/ handleStop
    \/ \E i \in DOMAIN queries :
          \/ IntentResolves(i)
          \/ QueryResolves(i)
          \/ RequestFails(i)
          \/ DelayElapses(i)

SpecChat == InitApp /\ [][NextChat]_vars

-----------------------------------------------------------------------------
(* The dashboard selection of App: SpecDash *)

\* currentDashboardId is 0 for null, or the id of a dashboard. The items of
\* dashboard d are written d, and dashboardItems is 0 for the initial [].
\* requests[i] is the i-th call of loadDashboardItems: the id it asked for and
\* whether its response is pending, has arrived or has failed.

DashOnly ==
    UNCHANGED <<pc, ioVars, chartVars, instances, isProcessing,
                abortControllerRef, queries>>

\* selectDashboard(id) (lines 513-518) and the effect that follows the change
\* of currentDashboardId (lines 328-335), up to the await of
\* loadDashboardItems (line 377)
selectDashboard(id) ==
    /\ id # currentDashboardId
    /\ Len(requests) < MaxSwitches
    /\ currentDashboardId' = id
    /\ requests' = Append(requests, [id |-> id, state |-> "pending"])
    /\ UNCHANGED dashboardItems
    /\ DashOnly

\* getDashboardItems answers: setDashboardItems(items) (line 378)
ItemsArrive(i) ==
    /\ requests[i].state = "pending"
    /\ requests' = [requests EXCEPT ![i].state = "arrived"]
    /\ dashboardItems' = requests[i].id
    /\ UNCHANGED currentDashboardId
    /\ DashOnly

\* getDashboardItems fails: the error is logged (lines 379-381)
ItemsFail(i) ==
    /\ requests[i].state = "pending"
    /\ requests' = [requests EXCEPT ![i].state = "failed"]
    /\ UNCHANGED <<currentDashboardId, dashboardItems>>
    /\ DashOnly

NextDash ==
    \/ \E id \in 1..MaxDashboards : selectDashboard(id)
    \/ \E i \in DOMAIN requests :
          \/ ItemsArrive(i)
          \/ ItemsFail(i)

SpecDash == InitApp /\ [][NextDash]_vars

-----------------------------------------------------------------------------
(* Claims *)

\* C1 (as claimed): for every non-empty record set, kind and hints the
\* synthesis never throws, and the specification it returns has a series list
\* and a tooltip.
C1_NeverThrows ==
    (~data.isNull /\ Len(data.rows) > 0) =>
        /\ view.kind # "threw"
        /\ view.kind = "chart" =>
              {"series", "tooltip"} \subseteq DOMAIN view.option

\* C2 (as claimed): an empty or null record set yields the "no data" result
\* for every kind, map, table and image included.
C2_EmptyAlwaysNoData ==
    (data.isNull \/ Len(data.rows) = 0) => view.kind = "noData"

\* C2 (amended): an empty or null record set never throws and yields the
\* "no data" result for every kind, except that kind map yields the loading
\* placeholder for as long as the boundary dataset is not loaded.
C2_EmptyNoDataOnceLoaded ==
    (data.isNull \/ Len(data.rows) = 0) =>
        view.kind = IF type = "map" /\ ~mapLoaded THEN "mapLoading"
                    ELSE "noData"

\* C2 witness: a map without records, rendered after its boundary dataset
\* arrived
C2_Witness ==
    /\ pc = "loaded"
    /\ type = "map"
    /\ data = NullData
    /\ view.kind = "noData"

\* C3 (as claimed): with the same kind, records, title and hints every render
\* yields the specification of the first one, whatever happened in between.
C3_SameArgumentsSameOption ==
    (view.kind = "chart" /\ first.set) => view.option = first.option

\* C3 (amended): with the same kind, records, title and hints every render
\* yields the specification of the first one for every kind but heatmap and
\* map; for these two it does so as long as the selected metric is the same.
C3_SameOptionButForSelectedMetric ==
    (view.kind = "chart" /\ first.set) =>
        \/ view.option = first.option
        \/ /\ type \in {"heatmap", "map"}
           /\ view.option.valKey # first.option.valKey

\* C3 witness: a bar chart rendered again after a metric that is not the
\* first one was selected
C3_Witness ==
    /\ pc = "selected"
    /\ type = "bar"
    /\ metricOverride = Str(GROWTH)
    /\ view.kind = "chart"
    /\ first.set

\* C4: for bar, line, area and mix there are two numeric axes exactly when the
\* metric columns hold a percentage column and a plain one; then the
\* percentage series are bound to the second axis and the plain ones to the
\* first; otherwise there is one axis and every series is bound to it.
C4_DualAxis ==
    (type \in {"bar", "line", "area", "mix"} /\ view.kind = "chart") =>
        LET dk == dataKeys(data)
            pct(i) == isPercentageKey(Str(dk[i]))
            both == (\E i \in DOMAIN dk : pct(i)) /\ (\E i \in DOMAIN dk : ~pct(i))
            o == view.option
        IN  /\ Len(o.series) = Len(dk)
            /\ o.yAxisIsArray = both
            /\ Len(o.yAxis) = IF both THEN 2 ELSE 1
            /\ o.yAxis[1].position = "left"
            /\ both => o.yAxis[2].position = "right"
            /\ \A i \in DOMAIN dk :
                  o.series[i].yAxisIndex = IF both /\ pct(i) THEN 1 ELSE 0

\* C4 witness: a mix chart of a plain and a percentage column, on two axes
C4_Witness ==
    /\ type = "mix"
    /\ view.kind = "chart"
    /\ view.option.yAxisIsArray
    /\ Len(view.option.series) = 2
    /\ view.option.series[1].yAxisIndex = 0
    /\ view.option.series[2].yAxisIndex = 1

\* C5: for bar, line, area and mix every percentage series is a line whatever
\* the kind, and every other series has the geometry of the kind: bar for bar
\* and mix, line for line and area.
C5_SeriesGeometry ==
    (type \in {"bar", "line", "area", "mix"} /\ view.kind = "chart") =>
        LET dk == dataKeys(data)
        IN  \A i \in DOMAIN dk :
              view.option.series[i].type =
                 IF isPercentageKey(Str(dk[i])) THEN "line"
                 ELSE IF type \in {"bar", "mix"} THEN "bar"
                 ELSE "line"

\* C5 witness: a bar chart with a percentage series drawn as a line beside a
\* plain series drawn as bars
C5_Witness ==
    /\ type = "bar"
    /\ view.kind = "chart"
    /\ \E i, j \in DOMAIN view.option.series :
          /\ view.option.series[i].type = "line"
          /\ view.option.series[j].type = "bar"

\* C6 (as claimed): in a bubble chart the records of the smallest absolute
\* size have the minimum radius, 10, and the records of the largest absolute
\* size have the maximum radius (60 by the comment of line 431, 80 by the
\* limit of line 432).
C6_MinAndMaxRadius ==
    (type = "bubble" /\ view.kind = "chart") =>
        LET ser == view.option.series
            items == UNION { { <<MathAbs(ser[s].data[j][3]), ser[s].symbolSize[j]>> :
                                j \in DOMAIN ser[s].data } : s \in DOMAIN ser }
        IN  ((\A x \in items : x[1].t = "num") /\ (\E x \in items : x[1].m # 0)) =>
               \A x \in items :
                  /\ (\A y \in items : ~NumLess(y[1], x[1])) => x[2] = Num(10)
                  /\ (\A y \in items : ~NumLess(x[1], y[1])) =>
                        x[2] \in {Num(60), Num(80)}

\* C6 (amended): in a bubble chart whose size values are all numeric and not
\* all zero, the records of the largest absolute size M have radius 60, a
\* record whose absolute size is at most M / 36 has the minimum radius 10,
\* every radius lies between 10 and 60, and a record of larger absolute size
\* never has the smaller radius.
C6_SqrtScaleRadius ==
    (type = "bubble" /\ view.kind = "chart") =>
        LET ser == view.option.series
            items == UNION { { <<MathAbs(ser[s].data[j][3]), ser[s].symbolSize[j]>> :
                                j \in DOMAIN ser[s].data } : s \in DOMAIN ser }
        IN  ((\A x \in items : x[1].t = "num") /\ (\E x \in items : x[1].m # 0)) =>
               \A x \in items :
                  /\ x[2].t = "num"
                  /\ ~NumLess(x[2], Num(10))
                  /\ ~NumLess(Num(60), x[2])
                  /\ (\A y \in items : ~NumLess(x[1], y[1])) => x[2] = Num(60)
                  /\ \A y \in items :
                        /\ (/\ \A z \in items : ~NumLess(y[1], z[1])
                            /\ ~NumLess(y[1], Dec(36 * x[1].m, x[1].e)))
                              => x[2] = Num(10)
                        /\ ~NumLess(y[1], x[1]) => ~NumLess(y[2], x[2])

\* C6 witness: the records of sizes 1, 4 and 9 drawn with the radii 20, 40
\* and 60
C6_Witness ==
    /\ type = "bubble"
    /\ view.kind = "chart"
    /\ Len(view.option.series) = 1
    /\ Len(view.option.series[1].data) = 3
    /\ \A j \in 1..3 :
          /\ view.option.series[1].data[j][3] = <<Num(1), Num(4), Num(9)>>[j]
          /\ view.option.series[1].symbolSize[j]
                = <<Num(20), Num(40), Num(60)>>[j]

\* C7 (as claimed): after a metric was selected, the legend of a map has the
\* least and the greatest of the coerced values of that metric as its min, its
\* max and its selected range.
C7_LegendIsExactMinMax ==
    (type = "map" /\ view.kind = "chart" /\ pc # "dragged") =>
        LET k == view.option.valKey
            coerced == {parseMapVal(Get(data.rows[r], k)) : r \in DOMAIN data.rows}
            vm == view.option.visualMap
        IN  /\ Truthy(metricOverride) => k = metricOverride
            /\ NaN \notin coerced =>
                  /\ vm.min = CHOOSE x \in coerced : \A y \in coerced : ~NumLess(y, x)
                  /\ vm.max = CHOOSE x \in coerced : \A y \in coerced : ~NumLess(x, y)
                  /\ activeRange(legendRange, view) = <<vm.min, vm.max>>

\* C7 (amended): after a metric was selected, the legend of a map is computed
\* from the coerced values of that metric alone and its selected range is the
\* whole of it, nothing being kept of an earlier selection: the min is their
\* least, or 0 when one of them is NaN; the max is their greatest, or 100 when
\* the greatest is 0 or one of them is NaN.
C7_LegendResetWithFallback ==
    (type = "map" /\ view.kind = "chart" /\ pc # "dragged") =>
        LET k == view.option.valKey
            coerced == {parseMapVal(Get(data.rows[r], k)) : r \in DOMAIN data.rows}
            vm == view.option.visualMap
            least == CHOOSE x \in coerced : \A y \in coerced : ~NumLess(y, x)
            greatest == CHOOSE x \in coerced : \A y \in coerced : ~NumLess(x, y)
        IN  /\ Truthy(metricOverride) => k = metricOverride
            /\ vm.min = IF NaN \in coerced THEN Num(0) ELSE least
            /\ vm.max = IF NaN \in coerced THEN Num(100)
                        ELSE IF greatest.m = 0 THEN Num(100) ELSE greatest
            /\ legendRange.set
            /\ activeRange(legendRange, view) = <<vm.min, vm.max>>

\* C7 witness: the growth rate was selected on a map of records of 12% and
\* -3%, and the legend spans -3 to 12
C7_Witness ==
    /\ pc = "selected"
    /\ type = "map"
    /\ view.kind = "chart"
    /\ metricOverride = Str(GROWTH)
    /\ view.option.visualMap.min = Num(-3)
    /\ view.option.visualMap.max = Num(12)
    /\ legendRange = [set |-> TRUE, lo |-> Num(-3), hi |-> Num(12)]

\* C8 (as claimed): the legend of a heatmap spans 0 to M, the greatest of the
\* coerced values of the selected metric over the records.
C8_LegendIsZeroToMax ==
    (type = "heatmap" /\ view.kind = "chart") =>
        LET k == view.option.valKey
            coerced == {parseVal(Get(data.rows[r], k)) : r \in DOMAIN data.rows}
            vm == view.option.visualMap
        IN  /\ vm.min = Num(0)
            /\ NaN \notin coerced =>
                  vm.max = CHOOSE x \in coerced : \A y \in coerced : ~NumLess(x, y)

\* C8 (amended): the legend of a heatmap spans 0 to M, the greatest of the
\* coerced values of the selected metric over the records, and 0 to 100 when
\* that greatest value is 0 or one of the values is NaN; the lower bound is
\* always 0.
C8_LegendZeroToMaxWithFallback ==
    (type = "heatmap" /\ view.kind = "chart") =>
        LET k == view.option.valKey
            coerced == {parseVal(Get(data.rows[r], k)) : r \in DOMAIN data.rows}
            vm == view.option.visualMap
            greatest == CHOOSE x \in coerced : \A y \in coerced : ~NumLess(x, y)
        IN  /\ Truthy(metricOverride) => k = metricOverride
            /\ vm.min = Num(0)
            /\ vm.max = IF NaN \in coerced THEN Num(100)
                        ELSE IF greatest.m = 0 THEN Num(100) ELSE greatest

\* C8 witness: a heatmap of the sales, the greatest being 9
C8_Witness ==
    /\ type = "heatmap"
    /\ view.kind = "chart"
    /\ view.option.valKey = Str(SALES)
    /\ view.option.visualMap.min = Num(0)
    /\ view.option.visualMap.max = Num(9)

\* C11: format(value, columnName) applies its rules in this order, the first
\* that applies deciding the result: undefined or NaN (a value that is not a
\* number included) is returned unchanged; on a percentage column a non-zero
\* value of magnitude at most 1.05 is multiplied by 100 and any other kept,
\* shown with one decimal and '%'; a magnitude of 10^8 or more is divided by
\* 10^8, one of 10^4 or more by 10^4, shown with one decimal and the unit; any
\* other non-integer is shown with one decimal and an integer with its
\* thousands grouped.  The four examples of the documentation hold.
C11_FormatRules ==
    (pc \in {"formatValue", "tableFormatValue"}) =>
        LET num == ToNumber(arg.value)
            pct == \E tok \in PercentTokens :
                      arg.key.t = "str" /\ Includes(ToLowerCase(arg.key.s), tok)
            OneDecimal(s, unit) ==
                /\ Len(s) >= 3 + Len(unit)
                /\ SubSeq(s, Len(s) - Len(unit) + 1, Len(s)) = unit
                /\ s[Len(s) - Len(unit) - 1] = "."
                /\ IsDigit(s[Len(s) - Len(unit)])
            Shows(s, unit, x) ==
                /\ OneDecimal(s, unit)
                /\ LET shown == StringToNumber(SubSeq(s, 1, Len(s) - Len(unit)))
                       d == Pow10(IF x.e > 1 THEN x.e ELSE 1)
                   IN  \* |shown - x| <= 0.05
                       /\ 20 * (shown.m * (d \div Pow10(shown.e))
                                - x.m * (d \div Pow10(x.e))) <= d
                       /\ 20 * (x.m * (d \div Pow10(x.e))
                                - shown.m * (d \div Pow10(shown.e))) <= d
            mag == NumAbs(num).m \div Pow10(num.e)
            hundredfold == IF num.e >= 2 THEN Dec(num.m, num.e - 2)
                           ELSE Num(num.m * Pow10(2 - num.e))
        IN  /\ num.t = "nan" => ret = arg.value
            /\ num.t = "num" =>
                  /\ ret.t = "str"
                  /\ CASE pct /\ num.m # 0 /\ mag <= 1
                            /\ 100 * NumAbs(num).m <= 105 * Pow10(num.e) ->
                            Shows(ret.s, <<"%">>, hundredfold)
                       [] pct -> Shows(ret.s, <<"%">>, num)
                       [] mag >= 100000000 ->
                            Shows(ret.s, <<"yi4">>, Dec(num.m, num.e + 8))
                       [] mag >= 10000 ->
                            Shows(ret.s, <<"wan4">>, Dec(num.m, num.e + 4))
                       [] num.e # 0 -> Shows(ret.s, <<>>, num)
                       [] OTHER ->
                            /\ StringToNumber(SelectSeq(ret.s, IsDigit)) = NumAbs(num)
                            /\ \A i \in DOMAIN ret.s :
                                  ret.s[i] = "," <=> (mag >= 1000 /\ i = Len(ret.s) - 3)
            /\ (arg = [value |-> Dec(125, 3), key |-> Str(<<"zhuan", "hua", "lv">>)])
                  => ret = Str(<<"1", "2", ".", "5", "%">>)
            /\ (arg = [value |-> Dec(125, 1), key |-> Str(<<"zhuan", "hua", "lv">>)])
                  => ret = Str(<<"1", "2", ".", "5", "%">>)
            /\ (arg = [value |-> Num(150000000), key |-> Str(SALES)])
                  => ret = Str(<<"1", ".", "5", "yi4">>)
            /\ (arg = [value |-> Num(25000), key |-> Str(SALES)])
                  => ret = Str(<<"2", ".", "5", "wan4">>)

\* C11 witness: 0.125 on the column 'conversion rate' was formatted as 12.5%
C11_Witness ==
    /\ pc = "formatValue"
    /\ arg = [value |-> Dec(125, 3), key |-> Str(<<"zhuan", "hua", "lv">>)]
    /\ ret = Str(<<"1", "2", ".", "5", "%">>)

\* C9 (as claimed): normalize(rawName) is the alias value when the trimmed name
\* is a key of the alias table, and the trimmed name itself otherwise (a value
\* of the table included), for every input name.
C9_NormalizeAsClaimed ==
    (pc = "normalized" /\ TypeOf(arg) = "string") =>
        LET t == Trim(arg.s)
        IN  ret = IF t \in DOMAIN PROVINCE_ALIAS THEN Str(PROVINCE_ALIAS[t])
                  ELSE Str(t)

C12_MetricKeysAsClaimed ==
    (pc = "dataKeys") =>
        LET d == arg.data
            Claimed(v) ==
                \/ v.t = "num"
                \/ /\ v.t = "str"
                   /\ \/ /\ v.s # <<>> /\ v.s[Len(v.s)] = "%"
                         /\ ParseFloat(SubSeq(v.s, 1, Len(v.s) - 1)).t = "num"
                      \/ Trim(v.s) # <<>> /\ StringToNumber(Trim(v.s)).t = "num"
            IsClaimed(k) == Claimed(d.rows[1][k])
        IN  IF d.isNull \/ d.rows = <<>> THEN ret.keys = <<>>
            ELSE ret.keys = SelectSeq(d.cols, IsClaimed)

\* C12: metricKeys holds, in the order of the columns and once each, exactly
\* the columns other than `name` whose value in the first record is a number,
\* a string that ends in '%' once trimmed and has a numeric prefix, or a
\* string that is not blank and is a number once trimmed; an empty string is
\* never a metric.  When no column qualifies, and for an empty or missing
\* record set, metricKeys is the one synthetic column `value`.
C12_MetricKeys ==
    (pc = "dataKeys") =>
        LET d == arg.data
            Numeric(v) ==
                \/ v.t = "num"
                \/ /\ v.t = "str"
                   /\ LET s == Trim(v.s)
                      IN  \/ /\ s # <<>> /\ s[Len(s)] = "%"
                             /\ ParseFloat(SubSeq(s, 1, Len(s) - 1)).t = "num"
                          \/ s # <<>> /\ StringToNumber(s).t = "num"
            metrics == IF d.isNull \/ d.rows = <<>> THEN {}
                       ELSE {k \in DOMAIN d.rows[1] : k # NAME /\ Numeric(d.rows[1][k])}
            Place(k) == CHOOSE i \in DOMAIN d.cols : d.cols[i] = k
        IN  IF metrics = {} THEN ret.keys = <<VALUE>>
            ELSE /\ {ret.keys[i] : i \in DOMAIN ret.keys} = metrics
                 /\ \A i, j \in DOMAIN ret.keys :
                       i < j => Place(ret.keys[i]) < Place(ret.keys[j])
                 /\ \A i \in DOMAIN ret.keys : d.rows[1][ret.keys[i]] # Str(<<>>)

\* C12 witness: of the columns sales, seg, name with the first record
\* " 7 ", "", 5 the metric is sales alone: the empty string is none and
\* neither is the numeric column `name`
C12_Witness ==
    /\ pc = "dataKeys"
    /\ arg.data.cols = <<SALES, <<"s", "e", "g">>, NAME>>
    /\ arg.data.rows[1][SALES] = Str(<<" ", "7", " ">>)
    /\ arg.data.rows[1][<<"s", "e", "g">>] = Str(<<>>)
    /\ arg.data.rows[1][NAME] = Num(5)
    /\ ret.keys = <<SALES>>

\* C13: exactly one dimension key is chosen, by priority: the `dimension`
\* hint; else the column named `name` when the records have one, whatever it
\* holds; else the first column, in the order of the columns, that is not a
\* metric; else the synthetic fallback `name`.
C13_DimensionKey ==
    (pc = "nameKey") =>
        LET d == arg.data
            metricKeys == dataKeys(d)
            NotMetric(k) == ~InSeq(metricKeys, k)
            others == SelectSeq(d.cols, NotMetric)
        IN  ret = IF Truthy(arg.cfg.dimension) THEN arg.cfg.dimension
                  ELSE IF NAME \in DOMAIN d.rows[1] THEN Str(NAME)
                  ELSE IF others # <<>> THEN Str(others[1])
                  ELSE Str(NAME)

C15_UnknownKindAsBar ==
    (type = "gauge" /\ view.kind = "chart") =>
        LET unknown == view.option
            bar == getOption("bar", data, title, geminiConfig, metricOverride)
            Axes(o) == [i \in DOMAIN o.yAxis |->
                           <<o.yAxis[i].type, o.yAxis[i].position>>]
            \* a series without yAxisIndex is drawn on the first value axis
            Binding(s) == IF "yAxisIndex" \in DOMAIN s THEN s.yAxisIndex ELSE 0
        IN  /\ unknown.xAxis.type = bar.xAxis.type
            /\ unknown.xAxis.data = bar.xAxis.data
            /\ Axes(unknown) = Axes(bar)
            /\ DOMAIN unknown.series = DOMAIN bar.series
            /\ \A i \in DOMAIN unknown.series :
                  /\ unknown.series[i].type = bar.series[i].type
                  /\ Binding(unknown.series[i]) = Binding(bar.series[i])

\* C16: a `dimension` hint that names a column of the records is the
\* dimension key; one that names a column no record has is ignored, and the
\* dimension key is the one chosen without any hint.
C16_MalformedHintIgnored ==
    (pc = "nameKey" /\ Truthy(arg.cfg.dimension)) =>
        LET d == arg.data
            hint == arg.cfg.dimension
        IN  IF hint.t = "str" /\ \A r \in DOMAIN d.rows : hint.s \in DOMAIN d.rows[r]
               THEN ret = hint
            ELSE ret = nameKey(d, NoHints, dataKeys(d))

\* C17: in the map, a record whose region name is neither an alias nor a
\* name of the boundary dataset keeps its trimmed name and is flagged as
\* unmatched: its entry of the series is told apart from the entry of a
\* matched record, by a field of its own or by the value NaN that the
\* tooltip shows as 'no data'.
C17_UnmatchedFlagged ==
    (type = "map" /\ view.kind = "chart") =>
        LET nk == nameKey(data, geminiConfig, dataKeys(data))
            entries == view.option.series[1].data
            Raw(r) == Or(Get(data.rows[r], nk), GetProperty(data.rows[r], NAME))
            Unmatched(v) ==
                /\ v.t = "str"
                /\ Trim(v.s) # <<>>
                /\ Trim(v.s) \notin DOMAIN PROVINCE_ALIAS \cup ProvinceAliasValues
        IN  \A r \in DOMAIN data.rows :
                Unmatched(Raw(r)) =>
                    /\ entries[r].name = Str(Trim(Raw(r).s))
                    /\ \/ DOMAIN entries[r] # {"name", "value"}
                       \/ entries[r].value.t = "nan"

\* C18: in a scatter chart of a record set with two metric columns or more,
\* every record yields a point whose X is its value in the first metric
\* column and whose Y is its value in the second, whatever the numbers are.
C18_ScatterPoints ==
    (type = "scatter" /\ view.kind = "chart" /\ Len(dataKeys(data)) >= 2) =>
        LET dk == dataKeys(data)
            points == view.option.series[1].data
        IN  /\ DOMAIN points = DOMAIN data.rows
            /\ \A r \in DOMAIN data.rows :
                  points[r] = <<data.rows[r][dk[1]], data.rows[r][dk[2]]>>

\* C19: in a radar chart, for each metric column whose values are numbers,
\* the maximum of the spoke is 1.2 times the largest value of the column
\* over the records, and every plotted value of the column is below it.
C19_RadarSpokeMaximum ==
    (type = "radar" /\ view.kind = "chart") =>
        LET dk == dataKeys(data)
            spokes == view.option.radar.indicator
            plotted == view.option.series[1].data
        IN  \A i \in DOMAIN dk :
                (\A r \in DOMAIN data.rows :
                    /\ dk[i] \in DOMAIN data.rows[r]
                    /\ data.rows[r][dk[i]].t = "num") =>
                    /\ \E r \in DOMAIN data.rows :
                          LET largest == data.rows[r][dk[i]]
                          IN  /\ \A q \in DOMAIN data.rows :
                                    ~NumLess(largest, data.rows[q][dk[i]])
                              /\ spokes[i].max = Dec(largest.m * 12, largest.e + 1)
                    /\ \A r \in DOMAIN plotted :
                          NumLess(plotted[r].value[i], spokes[i].max)

\* C20 (as claimed): the segments of a funnel chart are in the order of
\* descending value whatever the order of the records, and segment i has
\* the palette entry i modulo the length of the palette.
C20_FunnelSortedAsClaimed ==
    (type = "funnel" /\ view.kind = "chart") =>
        LET segments == view.option.series[1].data
            palette == IF geminiConfig.colors # <<>> THEN geminiConfig.colors
                       ELSE COLORS
        IN  (\A i \in DOMAIN segments : segments[i].value.t = "num") =>
                /\ \A i \in DOMAIN segments :
                      (i + 1 \in DOMAIN segments) =>
                          ~NumLess(segments[i].value, segments[i + 1].value)
                /\ \A i \in DOMAIN segments :
                      segments[i].color = palette[((i - 1) % Len(palette)) + 1]

\* C20: the funnel chart asks the renderer for the descending order and
\* keeps its segments in the order of the records: segment i has the name of
\* record i and the palette entry i modulo the length of the palette.
C20_FunnelInputOrder ==
    (type = "funnel" /\ view.kind = "chart") =>
        LET funnel == view.option.series[1]
            palette == IF geminiConfig.colors # <<>> THEN geminiConfig.colors
                       ELSE COLORS
        IN  /\ funnel.sort = "descending"
            /\ DOMAIN funnel.data = DOMAIN data.rows
            /\ \A i \in DOMAIN funnel.data :
                  /\ funnel.data[i].name = GetProperty(data.rows[i], NAME)
                  /\ funnel.data[i].color = palette[((i - 1) % Len(palette)) + 1]

\* C20 witness: a funnel chart of three records in ascending order with a
\* palette of two colours: the third segment has the first colour again
C20_Witness ==
    /\ type = "funnel" /\ view.kind = "chart"
    /\ geminiConfig.colors = <<"#0f172a", "#64748b">>
    /\ Len(data.rows) = 3
    /\ data.cols = <<NAME, SALES, GROWTH>>
    /\ data.rows[1][SALES] = Dec(25, 1) /\ data.rows[2][SALES] = Num(5)
    /\ view.option.series[1].data[1].value = Dec(25, 1)
    /\ view.option.series[1].data[2].value = Num(5)
    /\ view.option.series[1].data[3].color = "#0f172a"

\* C21: in a heatmap, each list of categories holds the values of its
\* grouping column that are not falsy, once each, in the order of their first
\* occurrence; the series holds, in the order of the records, one cell for
\* each record whose two values are in the lists, at the positions of those
\* values, and nothing else: a record with a value that is not in its list
\* gives no cell and no cell stands for a combination without a record.
C21_HeatmapCells ==
    (type = "heatmap" /\ view.kind = "chart") =>
        LET hxKey == Schemas.cross[1]
            hyKey == Schemas.cross[2]
            xCats == view.option.xAxis.data
            yCats == view.option.yAxis.data
            cells == view.option.series[1].data
            FirstRow(key, v) ==
                CHOOSE r \in DOMAIN data.rows :
                    /\ data.rows[r][key] = v
                    /\ \A q \in 1..(r - 1) : data.rows[q][key] # v
            CatsOf(cats, key) ==
                /\ {cats[i] : i \in DOMAIN cats}
                      = {data.rows[r][key] : r \in DOMAIN data.rows}
                        \ {Str(<<>>), Num(0), Undefined, NaN}
                /\ \A i, j \in DOMAIN cats :
                      i < j => FirstRow(key, cats[i]) < FirstRow(key, cats[j])
            Pos(cats, v) == CHOOSE i \in DOMAIN cats : cats[i] = v
            InList(cats, v) == \E i \in DOMAIN cats : cats[i] = v
            HasCell(r) == /\ InList(xCats, data.rows[r][hxKey])
                          /\ InList(yCats, data.rows[r][hyKey])
            records == SelectSeq([r \in DOMAIN data.rows |-> r], HasCell)
        IN  /\ CatsOf(xCats, hxKey)
            /\ CatsOf(yCats, hyKey)
            /\ Len(cells) = Len(records)
            /\ \A k \in DOMAIN cells :
                  /\ cells[k][1] = Pos(xCats, data.rows[records[k]][hxKey]) - 1
                  /\ cells[k][2] = Pos(yCats, data.rows[records[k]][hyKey]) - 1

\* C21 witness: a heatmap of three records, the second without a value in its
\* second grouping column and the third in the row of the first: two cells
C21_Witness ==
    /\ type = "heatmap" /\ view.kind = "chart"
    /\ Len(data.rows) = 3
    /\ data.rows[2][Schemas.cross[2]] = Str(<<>>)
    /\ data.rows[3][Schemas.cross[1]] = data.rows[1][Schemas.cross[1]]
    /\ data.rows[3][Schemas.cross[2]] # data.rows[1][Schemas.cross[2]]
    /\ Len(view.option.series[1].data) = 2
    /\ view.option.series[1].data[2][1] = 0
    /\ view.option.series[1].data[2][2] = 1

C23_LegendFromHint ==
    (view.kind = "chart") =>
        (view.option.legend.defined <=> geminiConfig.showLegend # JsBool(FALSE))

\* C24: whatever the number of map ChartRenderers and the order in which
\* they mount, at most one fetch of the boundary dataset is issued.
C24_AtMostOneFetch ==
    Cardinality({i \in DOMAIN instances : instances[i].fetch # "none"}) <= 1

\* C25: in every state of a heatmap or map chart in which a metric has been
\* selected, after any clicks on the metric buttons and changes of the record
\* set, the column plotted is one of the metric columns of the present
\* records.
C25_PlottedMetricIsCurrent ==
    (type \in {"heatmap", "map"} /\ view.kind = "chart" /\ Truthy(metricOverride)) =>
        InSeq(dataKeys(data), view.option.valKey.s)

\* C26: whenever the metric buttons of a heatmap or map chart are shown, the
\* button drawn as selected is the button of the column the chart plots.
C26_SelectedButtonIsPlotted ==
    (type \in {"heatmap", "map"} /\ view.kind = "chart" /\ view.toggle.shown) =>
        /\ view.toggle.selected = view.option.valKey
        /\ \E i \in DOMAIN view.toggle.keys :
              Str(view.toggle.keys[i]) = view.toggle.selected

\* C27: every value of the series of a map chart lies within the range
\* [min, max] of the visualMap of the same option.
C27_MapValuesWithinRange ==
    (type = "map" /\ view.kind = "chart") =>
        \A r \in DOMAIN view.option.series[1].data :
            LET v == view.option.series[1].data[r].value
            IN  /\ v.t # "nan"
                /\ ~NumLess(v, view.option.visualMap.min)
                /\ ~NumLess(view.option.visualMap.max, v)

\* C28: a map chart whose fetch of the boundary dataset has completed,
\* fulfilled or rejected, eventually leaves the "map loading" placeholder
\* (shown while mapLoaded is false, lines 170-180).
C28_LoadingEnds ==
    \A i \in 1..MaxInstances :
        (i \in DOMAIN instances /\ instances[i].fetch \in {"done", "failed"}) ~>
            (i \in DOMAIN instances /\ instances[i].mapLoaded)

\* C29: while a query sent by handleSend is in flight (its finally block has
\* not run and its signal is not aborted), isProcessing is true and
\* abortControllerRef holds the controller of that query.
C29_InFlightIsStoppable ==
    \A i \in DOMAIN queries :
        (queries[i].pos # "done" /\ ~queries[i].aborted) =>
            (isProcessing /\ abortControllerRef = i)

\* C30: once a dashboard has been selected and the response of every
\* getDashboardItems request has arrived, dashboardItems holds the items of
\* the dashboard currentDashboardId names.
C30_ItemsOfCurrentDashboard ==
    (requests # <<>> /\ \A i \in DOMAIN requests : requests[i].state = "arrived") =>
        dashboardItems = currentDashboardId


====
